---- MODULE Spec2Model ----
(***************************************************************************)
(* Model of the Challechara LLM chat backend: the chat orchestrator        *)
(* (services/gemini_service.py), the Go API client and the context         *)
(* formatters (services/go_api_client.py, services/file_service.py) and    *)
(* the project file routes (routers/projects.py).                          *)
(*                                                                         *)
(* Python str values are modelled as Texts: sequences of pieces, a piece   *)
(* being n consecutive characters of one origin (a literal of the source,  *)
(* an opaque user text, a rendered number).  len(), slicing, + and join    *)
(* are computed on pieces, so the 30000 and 5000 character ceilings keep   *)
(* their real values.  Texts that are scanned character by character (the  *)
(* LLM response) are sequences of one-character strings.                   *)
(***************************************************************************)
EXTENDS Integers, Sequences, FiniteSets, TLC

VARIABLES
    \* ---- chat: one request through routers/chat.py and generate_response
    env,                \* os.environ: GPT_OSS_URL, GPT_OSS_PASSWORD
    pc,                 \* position of the request in generate_response
    chat_type,          \* "project" | "dictionary" | "material"
    request,            \* ChatRequest: [sources, messages]
    idx,                \* index of the next source of the for loop
    content_context,    \* str accumulated from the formatters
    content_not_found,  \* list of str
    assembled,          \* prompt after "\n".join, before the 30000 check
    prompt,             \* prompt put in the payload
    goAttempts,         \* per source: invocations of the Go API client
    goHttp,             \* HTTP requests sent to the Go API for this request
    llmCalls,           \* requests.post calls made for this request
    llmFailed,          \* the requests.post call of this request raised
    reply,              \* what generate_response returned (or raised)
    http,               \* what the endpoint answered
    \* ---- Go API client called on its own
    client,
    \* ---- context formatters called on their own
    fmt,
    \* ---- HTML cleaning of a response text
    clean,
    \* ---- project files on disk and the project routes
    fs, now, last, lastBody,
    \* ---- materials router: module-level storage and the materials directory
    mat,
    \* ---- dictionary search
    dic,
    \* ---- FileService._read_text_file called on its own
    rd,
    \* ---- an exception on its way to the client
    err,
    \* ---- the event loop: the task that holds it and the inbound requests
    ev

chatVars == <<env, pc, chat_type, request, idx, content_context, content_not_found,
              assembled, prompt, goAttempts, goHttp, llmCalls, llmFailed, reply, http>>
fsVars == <<fs, now, last, lastBody>>
auxVars == <<mat, dic, rd, err, ev>>
vars == <<chatVars, client, fmt, clean, fsVars, auxVars>>

(***************************************************************************)
(* Bounds of the model                                                     *)
(***************************************************************************)
MaxSources == 2
MaxMsgs == 2

(***************************************************************************)
(* Texts                                                                   *)
(***************************************************************************)
Piece(k, s, v, n) == [k |-> k, s |-> s, v |-> v, n |-> n]

\* n characters of the source literal named s
Lit(s, n) == IF n = 0 THEN <<>> ELSE <<Piece("lit", s, 0, n)>>

\* the first n characters of the opaque text s
Body(s, n) == IF n = 0 THEN <<>> ELSE <<Piece("body", s, 0, n)>>

RECURSIVE Digits(_)
Digits(v) == IF v < 10 THEN 1 ELSE 1 + Digits(v \div 10)

\* str(v) of a non-negative int inside an f-string
Num(v) == <<Piece("num", "int", v, Digits(v))>>

\* a character sequence as a Text
CharsText(cs) == [i \in 1..Len(cs) |-> Piece("lit", cs[i], 0, 1)]

RECURSIVE TextLen(_)
TextLen(t) == IF t = <<>> THEN 0 ELSE Head(t).n + TextLen(Tail(t))

\* t[:k]
RECURSIVE Take(_, _)
Take(t, k) ==
    IF k <= 0 \/ t = <<>> THEN <<>>
    ELSE IF Head(t).n <= k THEN <<Head(t)>> \o Take(Tail(t), k - Head(t).n)
    ELSE <<[Head(t) EXCEPT !.n = k]>>

\* sep.join(list)
RECURSIVE Join(_, _)
Join(list, sep) ==
    IF list = <<>> THEN <<>>
    ELSE IF Len(list) = 1 THEN list[1]
    ELSE list[1] \o sep \o Join(Tail(list), sep)

NL == Lit("\n", 1)

\* t1 occurs in t as a run of consecutive pieces
Contains(t, t1) ==
    \E i \in 0..(Len(t) - Len(t1)) : SubSeq(t, i + 1, i + Len(t1)) = t1

(***************************************************************************)
(* The sibling Go API service and the Go API client                        *)
(* (services/go_api_client.py)                                             *)
(***************************************************************************)
\* Records the sibling service holds, per book.  Book b1 holds episodes e1,
\* e2 and material m1; book b2 holds nothing.
GoEpisodes ==
    [b \in {"b1"} |->
        [e \in {"e1", "e2"} |->
            [episode_no |-> IF e = "e1" THEN 1 ELSE 2,
             title |-> Body(IF e = "e1" THEN "title-e1" ELSE "title-e2", 8),
             content |-> Body(IF e = "e1" THEN "content-e1" ELSE "content-e2", 40)]]]

GoMaterials ==
    [b \in {"b1"} |->
        [m \in {"m1"} |->
            [title |-> Body("title-m1", 8),
             content |-> Body("content-m1", 40),
             created_at |-> Body("created-m1", 20)]]]

\* The methods class GoAPIClient defines.
GoAPIClientMethods == {"get_episodes", "get_episode", "get_materials", "get_material"}

\* What a batch operation of the client would answer: the records among ids
\* that the service holds for the book, through one HTTP POST.
BatchFetch(method, book_id, ids) ==
    LET held == IF method = "get_episodes_by_ids" THEN GoEpisodes ELSE GoMaterials
        found == IF book_id \in DOMAIN held
                 THEN SelectSeq(ids, LAMBDA i : i \in DOMAIN held[book_id])
                 ELSE <<>>
    IN  [raised |-> FALSE, exc |-> "",
         records |-> [i \in 1..Len(found) |-> held[book_id][found[i]]],
         http |-> 1]

\* self.go_api_client.<method>(book_id, ids): the attribute lookup on the
\* client object comes first and raises AttributeError for a method the class
\* does not define; no HTTP request is sent then.
CallClient(method, book_id, ids) ==
    IF method \in GoAPIClientMethods
    THEN BatchFetch(method, book_id, ids)
    ELSE [raised |-> TRUE, exc |-> "AttributeError", records |-> <<>>, http |-> 0]

(***************************************************************************)
(* Context formatters of services/go_api_client.py                         *)
(***************************************************************************)
DefaultMaxLength == 5000

Get(d, key, default) == IF key \in DOMAIN d THEN d[key] ELSE default

ContentPartCutsAtCeiling(content, max_length) ==
    IF TextLen(content) >= max_length
    THEN Take(content, max_length) \o Lit("\n... (nokori", 8)
            \o Num(TextLen(content) - max_length) \o Lit("moji shoryaku)", 5)
    ELSE content

\* the part appended for the content of one record (lines 124-127, 149-152)
ContentPart(content, max_length) ==
    IF TextLen(content) > max_length
    THEN Take(content, max_length) \o Lit("\n... (nokori", 8)
            \o Num(TextLen(content) - max_length) \o Lit("moji shoryaku)", 5)
    ELSE content

\* the three list entries appended for one episode
EpisodeLines(episode, max_length) ==
    LET title == Get(episode, "title", Lit("mudai", 2))
        content == Get(episode, "content", <<>>)
    IN  << Lit("\n--- Episode ", 13)
              \o (IF "episode_no" \in DOMAIN episode
                  THEN Num(episode.episode_no) ELSE Lit("?", 1))
              \o Lit(": ", 2) \o title \o Lit(" ---", 4),
           ContentPart(content, max_length),
           Lit("--- episode end ---", 15) >>

RECURSIVE EpisodeBlocks(_, _)
EpisodeBlocks(episodes, max_length) ==
    IF episodes = <<>> THEN <<>>
    ELSE EpisodeLines(Head(episodes), max_length) \o EpisodeBlocks(Tail(episodes), max_length)

\* the list `formatted` of format_episodes_for_context before the join
format_episodes_lines(episodes, max_length) ==
    <<Lit("=== episodes ===", 15)>>
        \o EpisodeBlocks(episodes, max_length)
        \o <<Lit("=== episodes end ===\n", 18)>>

format_episodes_unguarded(episodes, max_length) ==
    Join(format_episodes_lines(episodes, max_length), NL)

format_episodes_for_context(episodes, max_length) ==
    IF episodes = <<>> THEN <<>>
    ELSE Join(format_episodes_lines(episodes, max_length), NL)

MaterialLines(material, max_length) ==
    LET title == Get(material, "title", Lit("mudai", 2))
        content == Get(material, "content", <<>>)
        created_at == Get(material, "created_at", <<>>)
    IN  << Lit("\n--- material: ", 9) \o title \o Lit(" (", 2)
              \o created_at \o Lit(") ---", 5),
           ContentPart(content, max_length),
           Lit("--- material end ---", 12) >>

RECURSIVE MaterialBlocks(_, _)
MaterialBlocks(materials, max_length) ==
    IF materials = <<>> THEN <<>>
    ELSE MaterialLines(Head(materials), max_length) \o MaterialBlocks(Tail(materials), max_length)

format_materials_lines(materials, max_length) ==
    <<Lit("=== materials ===", 12)>>
        \o MaterialBlocks(materials, max_length)
        \o <<Lit("=== materials end ===\n", 15)>>

format_materials_for_context(materials, max_length) ==
    IF materials = <<>> THEN <<>>
    ELSE Join(format_materials_lines(materials, max_length), NL)

(***************************************************************************)
(* FileService.format_files_for_context (file_service.py, lines 245-263)   *)
(***************************************************************************)
FileMaxLength == 5000

\* files_content is a dict: here the sequence of its items, in insertion
\* order, each [filename, content]
FileLines(item) ==
    << Lit("\n--- file: ", 11) \o item.filename \o Lit(" ---", 4),
       IF TextLen(item.content) > FileMaxLength
       THEN Take(item.content, FileMaxLength) \o Lit("\n... (file too long)", 23)
       ELSE item.content,
       Lit("--- file end ---", 14) >>

RECURSIVE FileBlocks(_)
FileBlocks(items) ==
    IF items = <<>> THEN <<>> ELSE FileLines(Head(items)) \o FileBlocks(Tail(items))

format_files_lines(items) ==
    <<Lit("=== files ===", 14)>> \o FileBlocks(items) \o <<Lit("=== files end ===\n", 17)>>

format_files_for_context(items) ==
    IF items = <<>> THEN <<>> ELSE Join(format_files_lines(items), NL)

(***************************************************************************)
(* HTML cleaning of the LLM response (gemini_service.py, lines 430-435)    *)
(***************************************************************************)
\* A str scanned by character is a sequence of one-character strings.
\* html.entities.html5 restricted to the references the alphabet can spell:
\* amp, lt, gt, each with and without the semicolon.
Html5Keys ==
    { <<"a", "m", "p">>, <<"a", "m", "p", ";">>,
      <<"l", "t">>, <<"l", "t", ";">>,
      <<"g", "t">>, <<"g", "t", ";">> }

Html5(key) ==
    CASE key[1] = "a" -> <<"&">>
      [] key[1] = "l" -> <<"<">>
      [] OTHER -> <<">">>

\* a character the name of a character reference may hold:
\* [^\t\n\f <&#;] of html._charref
IsNameChar(c) == c \notin {"\t", "\n", "\f", " ", "<", "&", "#", ";"}

\* length of the longest run of name characters at the head of s (at most 32)
RECURSIVE NameRun(_, _)
NameRun(s, k) ==
    IF k < 32 /\ Len(s) > k /\ IsNameChar(s[k + 1]) THEN NameRun(s, k + 1) ELSE k

\* html._replace_charref for a named reference s (the text after the "&")
ReplaceCharref(s) ==
    IF s \in Html5Keys THEN Html5(s)
    ELSE LET xs == {x \in 2..(Len(s) - 1) : SubSeq(s, 1, x) \in Html5Keys}
         IN  IF xs = {} THEN <<"&">> \o s
             ELSE LET x == CHOOSE y \in xs : \A z \in xs : z <= y
                  IN  Html5(SubSeq(s, 1, x)) \o SubSeq(s, x + 1, Len(s))

\* html.unescape(s): every match of the reference pattern, left to right
RECURSIVE Unescape(_)
Unescape(s) ==
    IF s = <<>> THEN <<>>
    ELSE IF Head(s) # "&" THEN <<Head(s)>> \o Unescape(Tail(s))
    ELSE LET k == NameRun(Tail(s), 0)
             semi == IF Len(s) >= k + 2 /\ s[k + 2] = ";" THEN 1 ELSE 0
         IN  IF k = 0 THEN <<"&">> \o Unescape(Tail(s))
             ELSE ReplaceCharref(SubSeq(s, 2, 1 + k + semi))
                    \o Unescape(SubSeq(s, 2 + k + semi, Len(s)))

\* s.replace(old, new): non-overlapping occurrences, left to right
RECURSIVE Replace(_, _, _)
Replace(s, old, new) ==
    IF Len(s) < Len(old) THEN s
    ELSE IF SubSeq(s, 1, Len(old)) = old
         THEN new \o Replace(SubSeq(s, Len(old) + 1, Len(s)), old, new)
         ELSE <<Head(s)>> \o Replace(Tail(s), old, new)

CleanResponseDecodesLast(text) ==
    Unescape(
        Replace(
            Replace(
                Replace(text, <<"<", "b", "r", ">">>, <<"\n">>),
                <<"<", "b", "r", "/", ">">>, <<"\n">>),
            <<"<", "b", "r", " ", "/", ">">>, <<"\n">>))

\* html.unescape(text).replace("<br>", "\n").replace("<br/>", "\n")
\*     .replace("<br />", "\n")
CleanResponse(text) ==
    Replace(
        Replace(
            Replace(Unescape(text), <<"<", "b", "r", ">">>, <<"\n">>),
            <<"<", "b", "r", "/", ">">>, <<"\n">>),
        <<"<", "b", "r", " ", "/", ">">>, <<"\n">>)

\* not s.strip()
IsBlank(s) == \A i \in 1..Len(s) : s[i] \in {" ", "\n", "\t", "\r", "\f"}

(***************************************************************************)
(* Chat requests (models/schemas.py) and their inputs                      *)
(***************************************************************************)
\* A source string: raw is the string, nparts = len(source.split(":")),
\* prefix the text before the first colon, book parts[1], ids what
\* parts[2].split(",") gives ([] for an empty parts[2]).
Descriptor(raw, rawlen, prefix, nparts, book, ids) ==
    [raw |-> raw, rawlen |-> rawlen, prefix |-> prefix, nparts |-> nparts,
     book |-> book, ids |-> ids]

SourceDescriptors ==
    { Descriptor("project:b1:e1,e2", 16, "project", 3, "b1", <<"e1", "e2">>),
      Descriptor("project:b2:e9", 13, "project", 3, "b2", <<"e9">>),
      Descriptor("material:b1:m1", 14, "material", 3, "b1", <<"m1">>),
      Descriptor("book:b1", 7, "book", 2, "b1", <<>>),
      Descriptor("project:b2", 10, "project", 2, "b2", <<>>),
      Descriptor("notes.txt", 9, "notes.txt", 1, "", <<>>) }

\* source.startswith(prefix + ":")
StartsWith(source, prefix) == source.prefix = prefix /\ source.nparts >= 2

\* Message contents: opaque texts of these lengths.  With the project system
\* prompt, one user message of 28738 characters assembles to exactly 30000
\* characters and one of 28739 to 30001.
ContentLens == {5, 28738, 28739}

Messages ==
    [role : {"user", "assistant"},
     content : {Body("message", n) : n \in ContentLens}]

SeqsUpTo(S, n) == UNION {[1..k -> S] : k \in 0..n}

ChatTypes == {"project", "dictionary", "material"}

\* os.environ as the orchestrator reads it; "" is an unset variable
Envs == [GPT_OSS_URL : {"", "https://llm"},
         GPT_OSS_PASSWORD : {"", "Your-Pass-Word", "secret"}]

\* ChatMessage (id is the prefix of the generated id)
ChatMessage(id, role, content) == [id |-> id, role |-> role, content |-> content]
NoReply == ChatMessage("", "none", <<>>)
Raised(exc) == ChatMessage(exc, "raised", <<>>)

(***************************************************************************)
(* GeminiChatService.generate_response (gemini_service.py, lines 225-489)  *)
(***************************************************************************)
PromptLimit == 30000

\* self.system_prompts.get(chat_type, "")
SystemPrompt(ct) ==
    CASE ct = "project" -> Lit("system_prompts[project]", 1249)
      [] ct = "dictionary" -> Lit("system_prompts[dictionary]", 1289)
      [] ct = "material" -> Lit("system_prompts[material]", 1267)
      [] OTHER -> <<>>

\* the kind of record, the client method and the formatter of a chat type
OwnPrefix(ct) == IF ct = "project" THEN "project" ELSE "material"
ClientMethod(ct) == IF ct = "project" THEN "get_episodes_by_ids" ELSE "get_materials_by_ids"
FormatRecords(ct, records) ==
    IF ct = "project" THEN format_episodes_for_context(records, DefaultMaxLength)
    ELSE format_materials_for_context(records, DefaultMaxLength)

\* f"{prefix}:{book_id}"
Tag(prefix, book_id) ==
    (CASE prefix = "project" -> Lit("project:", 8)
       [] prefix = "material" -> Lit("material:", 9)
       [] OTHER -> Lit("book:", 5))
    \o Body(book_id, 2)

ProcessSourceSkipsLegacy(ct, source) ==
    IF StartsWith(source, OwnPrefix(ct)) \/ StartsWith(source, "book")
    THEN IF source.nparts >= 3
         THEN LET got == CallClient(ClientMethod(ct), source.book, source.ids)
              IN  IF ~got.raised /\ got.records # <<>>
                  THEN [context |-> FormatRecords(ct, got.records), not_found |-> <<>>,
                        attempts |-> 1, http |-> got.http]
                  ELSE [context |-> <<>>,
                        not_found |-> <<Tag(OwnPrefix(ct), source.book)>>,
                        attempts |-> 1, http |-> got.http]
         ELSE [context |-> <<>>, not_found |-> <<>>, attempts |-> 0, http |-> 0]
    ELSE [context |-> <<>>, not_found |-> <<>>, attempts |-> 0, http |-> 0]

\* One iteration of the loop over request.sources (lines 246-286, 291-335):
\* what it adds to content_context and content_not_found and what it costs.
ProcessSource(ct, source) ==
    IF StartsWith(source, OwnPrefix(ct)) \/ StartsWith(source, "book")
    THEN IF source.nparts >= 3
         THEN LET got == CallClient(ClientMethod(ct), source.book, source.ids)
              IN  IF ~got.raised /\ got.records # <<>>
                  THEN [context |-> FormatRecords(ct, got.records), not_found |-> <<>>,
                        attempts |-> 1, http |-> got.http]
                  ELSE [context |-> <<>>,
                        not_found |-> <<Tag(OwnPrefix(ct), source.book)>>,
                        attempts |-> 1, http |-> got.http]
         ELSE [context |-> <<>>, not_found |-> <<Tag("book", source.book)>>,
               attempts |-> 0, http |-> 0]
    ELSE [context |-> <<>>, not_found |-> <<>>, attempts |-> 0, http |-> 0]

DataTypeJa(ct) == IF ct = "project" THEN Lit("project_ja", 6) ELSE Lit("material_ja", 4)

\* the reply of lines 346-351
NotFoundMessage(ct, not_found) ==
    ChatMessage("error", "assistant",
        Lit("not_found_1", 15) \o DataTypeJa(ct) \o Lit("(", 1)
            \o Join(not_found, Lit(", ", 2))
            \o Lit(")not_found_2", 12) \o DataTypeJa(ct) \o Lit("not_found_3", 21))

MessageLineUnlabeled(msg) == Lit("user: ", 6) \o msg.content

\* one line of the conversation history (lines 359-361)
MessageLine(msg) ==
    (IF msg.role = "user" THEN Lit("user: ", 6) ELSE Lit("assistant: ", 8)) \o msg.content

\* conversation_history after lines 230-361, for a request that did not
\* return at line 346
ConversationHistory(ct, req, context, not_found) ==
    (IF SystemPrompt(ct) # <<>> THEN <<Lit("system: ", 6) \o SystemPrompt(ct)>> ELSE <<>>)
    \o (IF context # <<>> THEN <<context>> ELSE <<>>)
    \o (IF req.sources # <<>> /\ context = <<>> /\ not_found = <<>>
        THEN << Lit("sources: ", 9)
                  \o Join([i \in 1..Len(req.sources) |->
                             Body(req.sources[i].raw, req.sources[i].rawlen)],
                          Lit(", ", 2)) >>
        ELSE <<>>)
    \o [i \in 1..Len(req.messages) |-> MessageLine(req.messages[i])]

TruncationMarker == Lit("\n\n[prompt truncated]", 21)

\* lines 338-340: no context was loaded and some source was not found
ShortCircuitsOnSeveral(context, not_found) == context = <<>> /\ Len(not_found) > 1

ShortCircuits(context, not_found) == context = <<>> /\ not_found # <<>>

TruncateAtLimit(p) ==
    IF TextLen(p) >= PromptLimit THEN Take(p, PromptLimit) \o TruncationMarker ELSE p

\* lines 376-378
Truncate(p) ==
    IF TextLen(p) > PromptLimit THEN Take(p, PromptLimit) \o TruncationMarker ELSE p

UrlMissingMessage == ChatMessage("error", "assistant", Lit("url_missing", 37))
PasswordMissingMessage == ChatMessage("error", "assistant", Lit("password_missing", 39))

ConfigurationErrorAcceptsPlaceholder(e) ==
    IF e.GPT_OSS_URL = "" THEN UrlMissingMessage
    ELSE IF e.GPT_OSS_PASSWORD = "" THEN PasswordMissingMessage
    ELSE NoReply

\* lines 380-409: the reply when the endpoint is not configured, NoReply when
\* it is
ConfigurationError(e) ==
    IF e.GPT_OSS_URL = "" THEN UrlMissingMessage
    ELSE IF e.GPT_OSS_PASSWORD \in {"", "Your-Pass-Word"} THEN PasswordMissingMessage
    ELSE NoReply

\* ---- the call of the LLM endpoint (lines 415-463) ----------------------
\* What requests.post, raise_for_status and json() can give: a JSON object
\* (kind "ok": body is its "response" text; kind "no_field": no such key) or
\* an exception exc whose str() is len characters long and holds the
\* substrings marks.
Outcome(kind, body, exc, marks, len) ==
    [kind |-> kind, body |-> body, exc |-> exc, marks |-> marks, len |-> len]

ResponseBodies ==
    { <<>>, <<" ">>, <<"o", "k">>, <<"<", "b", "r", ">">>,
      <<"a", "&", "l", "t", ";", "b">> }

LLMOutcomes ==
    {Outcome("ok", b, "", {}, 0) : b \in ResponseBodies}
    \cup { Outcome("no_field", <<>>, "", {}, 0),
           Outcome("status", <<>>, "HTTPError", {"504"}, 80),
           Outcome("status", <<>>, "HTTPError", {}, 120),
           Outcome("status", <<>>, "HTTPError", {"limit"}, 80),
           Outcome("status", <<>>, "HTTPError", {"API_KEY"}, 80),
           Outcome("timeout", <<>>, "ReadTimeout", {"timeout"}, 90),
           Outcome("transport", <<>>, "ConnectionError", {}, 150),
           Outcome("bad_json", <<>>, "JSONDecodeError", {}, 40),
           Outcome("not_object", <<>>, "AttributeError", {}, 50) }

Raises(o) == o.kind \notin {"ok", "no_field"}

\* not response_text.strip(), for a response text
IsBlankText(t) ==
    \A i \in 1..Len(t) : t[i].n = 1 /\ t[i].s \in {" ", "\n", "\t", "\r", "\f"}

DataTypeJa3(ct) ==
    CASE ct = "project" -> Lit("project_ja", 6)
      [] ct = "material" -> Lit("material_ja", 4)
      [] OTHER -> Lit("data_ja", 3)

ResponseMessageUnchecked(ct, context, o) ==
    ChatMessage("msg", "assistant",
                CharsText(CleanResponse(IF o.kind = "ok" THEN o.body ELSE <<>>)))

\* lines 429-463: the reply built from a parsed response
ResponseMessage(ct, context, o) ==
    LET cleaned == CleanResponse(IF o.kind = "ok" THEN o.body ELSE <<>>)
        text1 == IF cleaned = <<>> \/ IsBlank(cleaned)
                 THEN Lit("empty_apology", 23)
                 ELSE CharsText(cleaned)
        text2 == IF IsBlankText(text1)
                 THEN IF context # <<>>
                      THEN Lit("sorry", 10) \o DataTypeJa3(ct) \o Lit("fallback_context", 57)
                      ELSE Lit("sorry", 10) \o Lit("fallback_1", 4) \o DataTypeJa3(ct)
                             \o Lit("fallback_2", 33) \o DataTypeJa3(ct)
                             \o Lit("fallback_3", 17)
                 ELSE text1
    IN  ChatMessage("msg", "assistant", text2)

ExceptReraisesUnknown(e) ==
    IF e.marks = {} THEN Raised(e.exc)
    ELSE ChatMessage("error", "assistant", Lit("error_classified", 30))

\* lines 465-489: the except clause of generate_response
ExceptMessage(e) ==
    ChatMessage("error", "assistant",
        IF "504" \in e.marks \/ "timeout" \in e.marks THEN Lit("error_timeout", 39)
        ELSE IF "API_KEY" \in e.marks THEN Lit("error_api_key", 29)
        ELSE IF "quota" \in e.marks \/ "limit" \in e.marks THEN Lit("error_quota", 27)
        ELSE Lit("error_generic", 22) \o Take(Body("str(e)", e.len), 100))

\* lines 422-463 inside the try of line 229
CallResult(ct, context, o) ==
    IF Raises(o) THEN ExceptMessage(o) ELSE ResponseMessage(ct, context, o)

RetryAfterFailure(o, calls) == IF Raises(o) /\ calls < 3 THEN "llm" ELSE "returned"

\* where generate_response goes after the requests.post of lines 423-425:
\* to a return statement (line 458 or 484), whatever the outcome
AfterCall(o, calls) == "returned"

\* ---- the endpoints of routers/chat.py ----------------------------------
NoHttp == [status |-> 0, success |-> FALSE, message |-> NoReply]

\* project_chat, dictionary_chat, material_chat after generate_response
EndpointResponse(r) ==
    IF r.role = "raised"
    THEN [status |-> 500, success |-> FALSE, message |-> NoReply]
    ELSE [status |-> 200, success |-> TRUE, message |-> r]

Requests ==
    [sources : SeqsUpTo(SourceDescriptors, MaxSources),
     messages : SeqsUpTo(Messages, MaxMsgs)]

\* ---- actions ------------------------------------------------------------
\* no request in progress: the locals of generate_response do not exist
IdleLocals ==
    [pc |-> "idle", chat_type |-> "", request |-> [sources |-> <<>>, messages |-> <<>>],
     idx |-> 1, content_context |-> <<>>, content_not_found |-> <<>>,
     assembled |-> <<>>, prompt |-> <<>>, goAttempts |-> <<>>, goHttp |-> 0,
     llmCalls |-> 0, llmFailed |-> FALSE, reply |-> NoReply, http |-> NoHttp]

ChatIdle ==
    /\ pc = "idle" /\ chat_type = "" /\ request = IdleLocals.request
    /\ idx = 1 /\ content_context = <<>> /\ content_not_found = <<>>
    /\ assembled = <<>> /\ prompt = <<>> /\ goAttempts = <<>> /\ goHttp = 0
    /\ llmCalls = 0 /\ llmFailed = FALSE /\ reply = NoReply /\ http = NoHttp

\* POST /api/chat/<ct>: the endpoint calls generate_response(request, ct)
Receive ==
    /\ pc = "idle"
    /\ \E ct \in ChatTypes, req \in Requests :
        /\ chat_type' = ct
        /\ request' = req
        /\ goAttempts' = [i \in 1..Len(req.sources) |-> 0]
        /\ pc' = IF ct \in {"project", "material"} /\ req.sources # <<>>
                 THEN "sources" ELSE "assemble"
    /\ idx' = 1
    /\ content_context' = <<>>
    /\ content_not_found' = <<>>
    /\ assembled' = <<>>
    /\ prompt' = <<>>
    /\ goHttp' = 0
    /\ llmCalls' = 0
    /\ llmFailed' = FALSE
    /\ reply' = NoReply
    /\ http' = NoHttp
    /\ UNCHANGED <<env, client, fmt, clean, fsVars, auxVars>>

\* one iteration of `for source in request.sources`
FetchSource ==
    /\ pc = "sources"
    /\ LET r == ProcessSource(chat_type, request.sources[idx])
       IN  /\ content_context' = content_context \o r.context
           /\ content_not_found' = content_not_found \o r.not_found
           /\ goAttempts' = [goAttempts EXCEPT ![idx] = @ + r.attempts]
           /\ goHttp' = goHttp + r.http
    /\ idx' = idx + 1
    /\ pc' = IF idx = Len(request.sources) THEN "assemble" ELSE "sources"
    /\ UNCHANGED <<env, chat_type, request, assembled, prompt, llmCalls, llmFailed,
                   reply, http, client, fmt, clean, fsVars, auxVars>>

\* lines 337-420: the context or the not-found reply, the prompt, its
\* truncation and the configuration checks
Assemble ==
    /\ pc = "assemble"
    /\ IF ShortCircuits(content_context, content_not_found)
       THEN /\ reply' = NotFoundMessage(chat_type, content_not_found)
            /\ pc' = "returned"
            /\ UNCHANGED <<assembled, prompt>>
       ELSE LET p == Join(ConversationHistory(chat_type, request, content_context,
                                              content_not_found), NL)
            IN  /\ assembled' = p
                /\ prompt' = Truncate(p)
                /\ IF ConfigurationError(env) # NoReply
                   THEN reply' = ConfigurationError(env) /\ pc' = "returned"
                   ELSE reply' = reply /\ pc' = "llm"
    /\ UNCHANGED <<env, chat_type, request, idx, content_context, content_not_found,
                   goAttempts, goHttp, llmCalls, llmFailed, http, client, fmt, clean,
                   fsVars, auxVars>>

\* lines 422-489: the one requests.post, and the reply made of its outcome
CallLLM ==
    /\ pc = "llm"
    /\ llmCalls' = llmCalls + 1
    /\ \E o \in LLMOutcomes :
        /\ llmFailed' = Raises(o)
        /\ reply' = CallResult(chat_type, content_context, o)
        /\ pc' = AfterCall(o, llmCalls + 1)
    /\ UNCHANGED <<env, chat_type, request, idx, content_context, content_not_found,
                   assembled, prompt, goAttempts, goHttp, http, client, fmt, clean,
                   fsVars, auxVars>>

\* the endpoint wraps the reply: ChatResponse(message, success=True), or
\* HTTPException(500) for an exception out of generate_response
Respond ==
    /\ pc = "returned"
    /\ http' = EndpointResponse(reply)
    /\ pc' = "done"
    /\ UNCHANGED <<env, chat_type, request, idx, content_context, content_not_found,
                   assembled, prompt, goAttempts, goHttp, llmCalls, llmFailed, reply,
                   client, fmt, clean, fsVars, auxVars>>

\* the response has been sent: the request and its locals are gone
Finish ==
    /\ pc = "done"
    /\ pc' = "idle" /\ chat_type' = "" /\ request' = IdleLocals.request
    /\ idx' = 1 /\ content_context' = <<>> /\ content_not_found' = <<>>
    /\ assembled' = <<>> /\ prompt' = <<>> /\ goAttempts' = <<>> /\ goHttp' = 0
    /\ llmCalls' = 0 /\ llmFailed' = FALSE /\ reply' = NoReply /\ http' = NoHttp
    /\ UNCHANGED <<env, client, fmt, clean, fsVars, auxVars>>

\* the variables of the other parts when they are not exercised
\* ---- the other components at rest ----------------------------------------
\* an answer of the sibling service to one GET request of the client
HttpOutcome(kind, status, exc) == [kind |-> kind, status |-> status, exc |-> exc]

\* the result of a client call: a returned value (a list; for the
\* single-record methods the record as a one-element list, or None) or a
\* raised exception
Returns(value) == [raised |-> FALSE, exc |-> "", none |-> FALSE, value |-> value]
ReturnsNone == [raised |-> FALSE, exc |-> "", none |-> TRUE, value |-> <<>>]
Raise(exc) == [raised |-> TRUE, exc |-> exc, none |-> FALSE, value |-> <<>>]

ClientIdle == [phase |-> "idle", method |-> "", arg |-> "",
               outcome |-> HttpOutcome("", 0, ""), result |-> Returns(<<>>)]

FmtIdle == [phase |-> "idle", formatter |-> "", input |-> <<>>, max_length |-> 0,
            lines |-> <<>>, out |-> <<>>]

CleanIdle == [phase |-> "idle", input |-> <<>>, out1 |-> <<>>, out2 |-> <<>>]

\* the projects directory: the project ids the file routes are called with,
\* the directories it may hold (those and the one a generated id names) and
\* the names a project directory holds
Projects == {"p1"}
ProjectDirs == Projects \cup {"project-0a1b2c3d"}
METADATA_FILE == "project_meta.json"
FileNames == {"a.txt", "b.txt", "n.md", METADATA_FILE}

\* what a name of a project directory holds: nothing, a text, or the JSON
\* object save_project_metadata dumps
File(kind, text, id, title, created_at, updated_at) ==
    [kind |-> kind, text |-> text, id |-> id, title |-> title,
     created_at |-> created_at, updated_at |-> updated_at, file_count |-> 0]
NoFile == File("none", "", "", "", 0, 0)
TextFile(text) == File("text", text, "", "", 0, 0)

NoDir == [exists |-> FALSE, files |-> [n \in FileNames |-> NoFile]]
EmptyDir == [exists |-> TRUE, files |-> [n \in FileNames |-> NoFile]]
NoProjects == [p \in ProjectDirs |-> NoDir]

\* the response of a project route that the caller has not read yet
Response(op, project, old, new, status) ==
    [op |-> op, project |-> project, old |-> old, new |-> new, status |-> status]
NoResponse == Response("", "", "", "", 0)

\* the JSON body of that response: the metadata it carries, the files and
\* the active file of a project detail, the projects or the names of a list
ResponseBody(meta, files, active, list, names) ==
    [meta |-> meta, files |-> files, active |-> active, list |-> list, names |-> names]
NoBody == ResponseBody(NoFile, <<>>, "", <<>>, {})

\* materials router: the module's materials_storage (book id -> materials,
\* a book is a key once something was stored for it), the files under
\* MATERIALS_DIR, the clock in seconds, the request handled last and its answer
Books == {"b1", "b2"}
MatRequest(op, book_id, title, files, material_id) ==
    [op |-> op, book_id |-> book_id, title |-> title, files |-> files,
     material_id |-> material_id]
MatResponse(status, materials) == [status |-> status, materials |-> materials]
EmptyStorage == [b \in {} |-> <<>>]
MatIdle ==
    [storage |-> EmptyStorage, disk |-> {}, time |-> 0,
     request |-> MatRequest("", "", "", <<>>, <<>>),
     response |-> MatResponse(0, <<>>)]
\* dictionary search: the request's query and limit, the response's status,
\* results and total, and whether the LLM was asked for an explanation
DicIdle ==
    [query |-> <<>>, limit |-> 0, status |-> 0, results |-> <<>>, total |-> 0,
     asked |-> FALSE]
\* FileService._read_text_file: the file it is called on (its suffix, its
\* size in bytes, its leading bytes, whether it can be opened) and the result:
\* None, or the text as the sequence of its code points
NoText == [none |-> TRUE, text |-> <<>>]
Text(str) == [none |-> FALSE, text |-> str]
RdIdle ==
    [phase |-> "idle", suffix |-> "", size |-> 0, bytes |-> <<>>,
     readable |-> TRUE, result |-> NoText]
\* exception handling: the DEBUG variable of the environment ("<unset>" when
\* it is not defined), the route that raised, and the response's status and body
NoDetails == "<None>"
ErrBody(error, details) == [error |-> error, details |-> details]
ErrState(debug, route, status, body) ==
    [DEBUG |-> debug, route |-> route, status |-> status, body |-> body]
ErrIdle == ErrState("<unset>", "", 0, ErrBody("", NoDetails))

\* the event loop of the process: the inbound requests it serves, each with
\* its handler's position, whether a call of the handler is outstanding, and
\* the task that holds the loop ("none" when it is free)
Tasks == {"r1", "r2"}
NoTask ==
    [kind |-> "", pc |-> "none", io |-> FALSE, ct |-> "", early |-> FALSE,
     old |-> "", new |-> "", content |-> "", status |-> 0]
EvIdle == [running |-> "none", task |-> [t \in Tasks |-> NoTask]]

OthersIdle ==
    /\ client = ClientIdle
    /\ fmt = FmtIdle
    /\ clean = CleanIdle
    /\ fs = NoProjects /\ now = 0 /\ last = NoResponse /\ lastBody = NoBody
    /\ mat = MatIdle /\ dic = DicIdle /\ rd = RdIdle /\ err = ErrIdle
    /\ ev = EvIdle

Init ==
    /\ env \in Envs
    /\ ChatIdle
    /\ OthersIdle

Next ==
    \/ Receive
    \/ FetchSource
    \/ Assemble
    \/ CallLLM
    \/ Respond
    \/ Finish

Spec == Init /\ [][Next]_vars

(***************************************************************************)
(* Properties of the chat orchestrator                                     *)
(***************************************************************************)
Returned == pc \in {"returned", "done"}

\* the chat reads the source: it is of the chat's own kind or a book: source
Applicable(ct, source) == StartsWith(source, OwnPrefix(ct)) \/ StartsWith(source, "book")

\* the source has one of the documented forms <kind>:<book>:<ids>, book:<book>
WireFormat(ct, source) ==
    \/ source.prefix = OwnPrefix(ct) /\ source.nparts = 3
    \/ source.prefix = "book" /\ source.nparts = 2

\* the text names the source: it holds <kind>:<book> for a source of a
\* documented form, and the book id after a kind tag for any other
NamesSource(text, ct, source) ==
    IF WireFormat(ct, source)
    THEN Contains(text, Tag(source.prefix, source.book))
    ELSE \E kind \in {"project", "material", "book"} :
            Contains(text, Tag(kind, source.book))

\* every source of the request was read by the chat and none gave a record
AllSourcesMissing ==
    /\ chat_type \in {"project", "material"}
    /\ request.sources # <<>>
    /\ \A i \in 1..Len(request.sources) : Applicable(chat_type, request.sources[i])
    /\ content_context = <<>>

\* C1: when every source of a project or material chat gives zero records,
\* generate_response returns an assistant message that names each missing
\* source, and the LLM endpoint is not called for the request.
C1_NotFoundShortCircuit ==
    (Returned /\ AllSourcesMissing) =>
        /\ reply.role = "assistant"
        /\ llmCalls = 0
        /\ \A i \in 1..Len(request.sources) :
              NamesSource(reply.content, chat_type, request.sources[i])

C1_Witness ==
    /\ pc = "done" /\ AllSourcesMissing
    /\ Len(request.sources) = 2
    /\ request.sources[1].nparts = 3 /\ request.sources[2].nparts = 2
    /\ goAttempts = <<1, 0>>
    /\ env.GPT_OSS_URL # "" /\ env.GPT_OSS_PASSWORD = "secret"

\* the records the sibling service holds for a source
HeldRecords(ct, source) ==
    BatchFetch(ClientMethod(ct), source.book, source.ids).records

\* the service holds every record the source names
Held(ct, source) ==
    /\ source.prefix = OwnPrefix(ct) /\ source.nparts = 3 /\ source.ids # <<>>
    /\ Len(HeldRecords(ct, source)) = Len(source.ids)

Configured == env.GPT_OSS_URL # "" /\ env.GPT_OSS_PASSWORD \notin {"", "Your-Pass-Word"}

\* C2: when the data service holds the records a well-formed descriptor
\* names, the chat fetches them through the client (one HTTP request) and the
\* prompt sent to the LLM holds the formatted context block of those records.
C2_HeldRecordsReachPrompt ==
    (/\ Returned /\ Configured
     /\ chat_type \in {"project", "material"}
     /\ Len(request.sources) = 1
     /\ Held(chat_type, request.sources[1]))
    => /\ goHttp = 1
       /\ llmCalls = 1
       /\ Contains(prompt,
                   FormatRecords(chat_type, HeldRecords(chat_type, request.sources[1])))

\* h is the text of the first TextLen(h) characters of t
IsTextPrefix(h, t) ==
    /\ Len(h) <= Len(t)
    /\ \A i \in 1..Len(h) :
          IF i < Len(h) THEN h[i] = t[i]
          ELSE h[i].n <= t[i].n /\ [h[i] EXCEPT !.n = t[i].n] = t[i]

EndsWith(t, suffix) ==
    Len(t) >= Len(suffix) /\ SubSeq(t, Len(t) - Len(suffix) + 1, Len(t)) = suffix

ReachedLLM == pc = "llm" \/ llmCalls > 0

\* C3: for a request that reaches the LLM the dispatched prompt is the whole
\* assembled prompt when that is at most 30000 characters long, and else its
\* first 30000 characters followed by the truncation marker; it is never
\* longer than 30000 characters plus the marker.
C3_PromptCeiling ==
    ReachedLLM =>
        /\ TextLen(prompt) <= PromptLimit + TextLen(TruncationMarker)
        /\ TextLen(assembled) <= PromptLimit => prompt = assembled
        /\ TextLen(assembled) > PromptLimit =>
              /\ EndsWith(prompt, TruncationMarker)
              /\ LET head == SubSeq(prompt, 1, Len(prompt) - Len(TruncationMarker))
                 IN  TextLen(head) = PromptLimit /\ IsTextPrefix(head, assembled)

C3_Witness == llmCalls = 1 /\ TextLen(assembled) > PromptLimit /\ Len(request.messages) = 2

\* a request whose assembled prompt is exactly as long as the ceiling
C3_AtLimit == llmCalls = 1 /\ TextLen(assembled) = PromptLimit

C5_NoRetry ==
    /\ llmCalls <= 1
    /\ \A i \in 1..Len(goAttempts) : goAttempts[i] <= 1
    /\ goHttp <= Len(goAttempts)
    /\ llmFailed => llmCalls = 1 /\ Returned

C5_Witness == pc = "done" /\ llmFailed /\ llmCalls = 1

(***************************************************************************)
(* The Go API client called on its own (go_api_client.py, lines 23-107)    *)
(***************************************************************************)
\* What `await client.get(url)`, raise_for_status() and response.json() can
\* give: an HTTP response with a status and, for a 2xx status, a body that
\* parses as JSON or not; or a transport exception of httpx.
HttpOutcomes ==
    {HttpOutcome("response", st, "") : st \in {200, 400, 401, 403, 404, 500, 502, 503}}
    \cup {HttpOutcome("bad_json", 200, "JSONDecodeError")}
    \cup {HttpOutcome("transport", 0, e) : e \in {"ConnectError", "ReadTimeout"}}

ListMethods == {"get_episodes", "get_materials"}

\* the argument of a call: a book id for the list methods, a record id else
ClientArgs(method) == IF method \in ListMethods THEN {"b1", "b2"} ELSE {"e1", "e9", "m1"}

\* the JSON body the sibling service sends with status 200
OkBody(method, arg) ==
    CASE method = "get_episodes" ->
            IF arg \in DOMAIN GoEpisodes
            THEN <<GoEpisodes[arg]["e1"], GoEpisodes[arg]["e2"]>> ELSE <<>>
      [] method = "get_materials" ->
            IF arg \in DOMAIN GoMaterials THEN <<GoMaterials[arg]["m1"]>> ELSE <<>>
      [] method = "get_episode" ->
            IF arg \in DOMAIN GoEpisodes["b1"] THEN <<GoEpisodes["b1"][arg]>> ELSE <<>>
      [] OTHER ->
            IF arg \in DOMAIN GoMaterials["b1"] THEN <<GoMaterials["b1"][arg]>> ELSE <<>>

ClientResultEmptyOnAnyStatus(method, arg, o) ==
    CASE o.kind = "transport" -> Raise(o.exc)
      [] o.kind = "bad_json" -> Raise(o.exc)
      [] o.status >= 400 -> IF method \in ListMethods THEN Returns(<<>>) ELSE ReturnsNone
      [] OTHER -> Returns(OkBody(method, arg))

\* get_episodes, get_materials (lines 23-42, 67-86) and get_episode,
\* get_material (lines 44-63, 88-107): the try and its two except clauses
ClientResult(method, arg, o) ==
    CASE o.kind = "transport" -> Raise(o.exc)
      [] o.kind = "bad_json" -> Raise(o.exc)
      [] o.status >= 400 ->
            IF o.status = 404
            THEN IF method \in ListMethods THEN Returns(<<>>) ELSE ReturnsNone
            ELSE Raise("HTTPStatusError")
      [] OTHER -> Returns(OkBody(method, arg))

\* a caller awaits one of the four methods: the GET request is sent
ClientCall ==
    /\ client.phase = "idle"
    /\ \E method \in GoAPIClientMethods :
          \E arg \in ClientArgs(method) :
             client' = [ClientIdle EXCEPT !.phase = "awaiting", !.method = method,
                                          !.arg = arg]
    /\ UNCHANGED <<chatVars, fmt, clean, fsVars, auxVars>>

\* the request completes and the method returns or raises
ClientComplete ==
    /\ client.phase = "awaiting"
    /\ \E o \in HttpOutcomes :
          client' = [client EXCEPT !.phase = "done", !.outcome = o,
                                   !.result = ClientResult(client.method, client.arg, o)]
    /\ UNCHANGED <<chatVars, fmt, clean, fsVars, auxVars>>

ClientReset ==
    /\ client.phase = "done"
    /\ client' = ClientIdle
    /\ UNCHANGED <<chatVars, fmt, clean, fsVars, auxVars>>

ChatOff == env = [GPT_OSS_URL |-> "", GPT_OSS_PASSWORD |-> ""] /\ ChatIdle

InitClient == ChatOff /\ OthersIdle

NextClient == ClientCall \/ ClientComplete \/ ClientReset

SpecClient == InitClient /\ [][NextClient]_vars

\* the outbound call failed: an HTTP error status or a transport failure
FailedFetch(o) == o.kind = "transport" \/ (o.kind = "response" /\ o.status >= 400)

ListFetchDone == client.phase = "done" /\ client.method \in ListMethods

\* C6 as stated: every list fetch returns an empty list and does not raise
\* on any HTTP error status and on any transport failure.
C6_EmptyOnAnyFailure ==
    (ListFetchDone /\ FailedFetch(client.outcome)) =>
        ~client.result.raised /\ ~client.result.none /\ client.result.value = <<>>

\* C6 amended: a list fetch returns an empty list, and does not raise, on the
\* HTTP status 404 alone; on any other HTTP error status and on any transport
\* failure it raises the exception of the failure.
C6_EmptyOn404Only ==
    (ListFetchDone /\ FailedFetch(client.outcome)) =>
        IF client.outcome.kind = "response" /\ client.outcome.status = 404
        THEN ~client.result.raised /\ ~client.result.none /\ client.result.value = <<>>
        ELSE /\ client.result.raised
             /\ client.result.exc =
                   IF client.outcome.kind = "transport"
                   THEN client.outcome.exc ELSE "HTTPStatusError"

C6_Witness ==
    /\ ListFetchDone
    /\ client.outcome.kind = "response" /\ client.outcome.status = 503
    /\ client.result.raised

(***************************************************************************)
(* The context formatters called on their own                              *)
(***************************************************************************)
MaxRecords == 2

\* Contents of 0, 3, 4, 5000 and 5001 characters: at, under and over the
\* ceilings 3 and 5000.
RecordContents == {Body("content", n) : n \in {0, 3, 4, 5000, 5001}}

\* dicts of the sibling service: with every key, or with keys missing
EpisodeDicts ==
    {[episode_no |-> 7, title |-> Body("title-A", 7), content |-> c] : c \in RecordContents}
    \cup {[title |-> Body("title-B", 7), content |-> Body("content", 4)],
          [episode_no |-> 12, content |-> Body("content", 5001)],
          [episode_no |-> 3, title |-> Body("title-B", 7)]}

MaterialDicts ==
    {[title |-> Body("title-A", 7), content |-> c, created_at |-> Body("created", 20)] :
        c \in RecordContents}
    \cup {[title |-> Body("title-B", 7), content |-> Body("content", 4)],
          [content |-> Body("content", 5001), created_at |-> Body("created", 20)],
          [title |-> Body("title-B", 7), created_at |-> Body("created", 20)]}

FileItems ==
    [filename : {Body("a.txt", 5), Body("b.md", 4)}, content : RecordContents]

\* the items of a dict: no key twice
DistinctNames(items) ==
    \A i, j \in 1..Len(items) : i # j => items[i].filename # items[j].filename

MaxLengths == {3, DefaultMaxLength}

FormatEpisodes ==
    /\ fmt.phase = "idle"
    /\ \E episodes \in SeqsUpTo(EpisodeDicts, MaxRecords), max_length \in MaxLengths :
          fmt' = [phase |-> "done", formatter |-> "episodes", input |-> episodes,
                  max_length |-> max_length,
                  lines |-> IF episodes = <<>> THEN <<>>
                            ELSE format_episodes_lines(episodes, max_length),
                  out |-> format_episodes_for_context(episodes, max_length)]
    /\ UNCHANGED <<chatVars, client, clean, fsVars, auxVars>>

FormatMaterials ==
    /\ fmt.phase = "idle"
    /\ \E materials \in SeqsUpTo(MaterialDicts, MaxRecords), max_length \in MaxLengths :
          fmt' = [phase |-> "done", formatter |-> "materials", input |-> materials,
                  max_length |-> max_length,
                  lines |-> IF materials = <<>> THEN <<>>
                            ELSE format_materials_lines(materials, max_length),
                  out |-> format_materials_for_context(materials, max_length)]
    /\ UNCHANGED <<chatVars, client, clean, fsVars, auxVars>>

FormatFiles ==
    /\ fmt.phase = "idle"
    /\ \E items \in SeqsUpTo(FileItems, MaxRecords) :
          /\ DistinctNames(items)
          /\ fmt' = [phase |-> "done", formatter |-> "files", input |-> items,
                     max_length |-> FileMaxLength,
                     lines |-> IF items = <<>> THEN <<>> ELSE format_files_lines(items),
                     out |-> format_files_for_context(items)]
    /\ UNCHANGED <<chatVars, client, clean, fsVars, auxVars>>

FormatReset ==
    /\ fmt.phase = "done"
    /\ fmt' = FmtIdle
    /\ UNCHANGED <<chatVars, client, clean, fsVars, auxVars>>

InitFormat == ChatOff /\ OthersIdle

NextFormat == FormatEpisodes \/ FormatMaterials \/ FormatFiles \/ FormatReset

SpecFormat == InitFormat /\ [][NextFormat]_vars

\* the markers of a formatter
StartMarker(f) ==
    CASE f = "episodes" -> Lit("=== episodes ===", 15)
      [] f = "materials" -> Lit("=== materials ===", 12)
      [] OTHER -> Lit("=== files ===", 14)

ItemMarker(f) ==
    CASE f = "episodes" -> Lit("\n--- Episode ", 13)
      [] f = "materials" -> Lit("\n--- material: ", 9)
      [] OTHER -> Lit("\n--- file: ", 11)

ItemEndMarker(f) ==
    CASE f = "episodes" -> Lit("--- episode end ---", 15)
      [] f = "materials" -> Lit("--- material end ---", 12)
      [] OTHER -> Lit("--- file end ---", 14)

ClosingMarker(f) ==
    CASE f = "episodes" -> Lit("=== episodes end ===\n", 18)
      [] f = "materials" -> Lit("=== materials end ===\n", 15)
      [] OTHER -> Lit("=== files end ===\n", 17)

\* the label of a record: its title (the file's name), or the default title
Label(f, record) ==
    IF f = "files" THEN record.filename ELSE Get(record, "title", Lit("mudai", 2))

IsLabelPiece(p) == p.s \in {"title-A", "title-B", "mudai", "a.txt", "b.md"}

\* the block opens and closes one item after the other and nothing else
Skeleton(f, n) ==
    StartMarker(f)
        \o [i \in 1..(2 * n) |-> IF i % 2 = 1 THEN ItemMarker(f)[1] ELSE ItemEndMarker(f)[1]]
        \o ClosingMarker(f)

IsMarkerPiece(f, p) ==
    <<p>> \in {StartMarker(f), ItemMarker(f), ItemEndMarker(f), ClosingMarker(f)}

\* C7: each formatter returns the empty string for an empty input and, for a
\* non-empty input, a non-empty block that begins with the start marker, holds
\* one labelled sub-block per record in input order, each closed by its
\* end-of-item marker, and ends with the closing marker.
C7_BlockStructure ==
    fmt.phase = "done" =>
        IF fmt.input = <<>> THEN fmt.out = <<>>
        ELSE /\ TextLen(fmt.out) > 0
             /\ SubSeq(fmt.out, 1, 1) = StartMarker(fmt.formatter)
             /\ EndsWith(fmt.out, ClosingMarker(fmt.formatter))
             /\ SelectSeq(fmt.out, LAMBDA p : IsMarkerPiece(fmt.formatter, p))
                   = Skeleton(fmt.formatter, Len(fmt.input))
             /\ SelectSeq(fmt.out, IsLabelPiece)
                   = Join([i \in 1..Len(fmt.input) |-> Label(fmt.formatter, fmt.input[i])],
                          <<>>)

C7_Witness ==
    /\ fmt.phase = "done" /\ fmt.formatter = "materials" /\ Len(fmt.input) = 2
    /\ "title" \notin DOMAIN fmt.input[1]
    /\ "title" \in DOMAIN fmt.input[2]

C7_WitnessEmpty == fmt.phase = "done" /\ fmt.input = <<>>

\* the content line of the i-th record in the list the formatter joins
ContentLine(i) == fmt.lines[3 * i]

\* the line is the first m characters of the content and then a marker
CutAt(line, content, m) ==
    \E k \in 0..Len(line) :
        /\ TextLen(SubSeq(line, 1, k)) = m
        /\ IsTextPrefix(SubSeq(line, 1, k), content)
        /\ k < Len(line)
        /\ \A j \in (k + 1)..Len(line) : line[j].k \in {"lit", "num"}

\* the line states the number v
StatesNumber(line, v) == \E j \in 1..Len(line) : line[j].k = "num" /\ line[j].v = v

RecordContent(record) == Get(record, "content", <<>>)

\* C8 as stated: for every record and ceiling max_length, a content longer
\* than max_length appears as its first max_length characters followed by a
\* marker stating the number of omitted characters; a content of at most
\* max_length characters appears unchanged.
C8_OmissionStatesCount ==
    fmt.phase = "done" =>
        \A i \in 1..Len(fmt.input) :
            LET content == RecordContent(fmt.input[i])
            IN  IF TextLen(content) > fmt.max_length
                THEN /\ CutAt(ContentLine(i), content, fmt.max_length)
                     /\ StatesNumber(ContentLine(i), TextLen(content) - fmt.max_length)
                ELSE ContentLine(i) = content

\* C8 amended: the same, but only the episode and material formatters state
\* the number of omitted characters; the file formatter, whose ceiling is
\* fixed at 5000, appends a fixed marker without a number.
C8_OmissionMarker ==
    fmt.phase = "done" =>
        \A i \in 1..Len(fmt.input) :
            LET content == RecordContent(fmt.input[i])
            IN  IF TextLen(content) > fmt.max_length
                THEN /\ CutAt(ContentLine(i), content, fmt.max_length)
                     /\ IF fmt.formatter = "files"
                        THEN /\ fmt.max_length = 5000
                             /\ \A v \in 0..5001 : ~StatesNumber(ContentLine(i), v)
                        ELSE StatesNumber(ContentLine(i),
                                          TextLen(content) - fmt.max_length)
                ELSE ContentLine(i) = content

C8_Witness ==
    /\ fmt.phase = "done" /\ fmt.formatter = "episodes" /\ Len(fmt.input) = 2
    /\ fmt.max_length = 5000
    /\ TextLen(RecordContent(fmt.input[1])) = 5000
    /\ TextLen(RecordContent(fmt.input[2])) = 5001

(***************************************************************************)
(* The HTML cleaning applied on its own, once and once more                *)
(***************************************************************************)
MaxPieces == 3

\* the fragments a response text is built of: references with and without
\* the semicolon, the parts of the <br> tags, and plain characters
Fragments ==
    { <<"&">>, <<"a", "m", "p", ";">>, <<"a", "m", "p">>, <<"&", "l", "t", ";">>,
      <<"&", "l", "t">>, <<"&", "g", "t", ";">>, <<"<", "b", "r">>, <<"b", "r">>,
      <<">">>, <<"/", ">">>, <<" ", "/", ">">>, <<"x">> }

ResponseTexts == {Join(fs1, <<>>) : fs1 \in SeqsUpTo(Fragments, MaxPieces)}

CleanCall ==
    /\ clean.phase = "idle"
    /\ \E text \in ResponseTexts :
          clean' = [phase |-> "cleaned", input |-> text, out1 |-> CleanResponse(text),
                    out2 |-> <<>>]
    /\ UNCHANGED <<chatVars, client, fmt, fsVars, auxVars>>

CleanAgain ==
    /\ clean.phase = "cleaned"
    /\ clean' = [clean EXCEPT !.phase = "again", !.out2 = CleanResponse(clean.out1)]
    /\ UNCHANGED <<chatVars, client, fmt, fsVars, auxVars>>

CleanReset ==
    /\ clean.phase = "again"
    /\ clean' = CleanIdle
    /\ UNCHANGED <<chatVars, client, fmt, fsVars, auxVars>>

InitClean == ChatOff /\ OthersIdle

NextClean == CleanCall \/ CleanAgain \/ CleanReset

SpecClean == InitClean /\ [][NextClean]_vars

\* C9 as stated: cleaning is idempotent, clean(clean(t)) = clean(t) for
\* every text t.
C9_CleanIdempotent == clean.phase = "again" => clean.out2 = clean.out1

\* the text holds a character reference html.unescape decodes
HoldsReference(text) == Unescape(text) # text

\* C9 amended: cleaning a cleaned text returns it unchanged whenever the
\* cleaned text holds no character reference; a text whose decoding spells a
\* new reference (&amp;amp; gives &amp;) is decoded once more by a second
\* cleaning.
C9_CleanIdempotentWithoutReference ==
    (clean.phase = "again" /\ ~HoldsReference(clean.out1)) => clean.out2 = clean.out1

\* an encoded tag: decoded, then converted, and stable under a second cleaning
C9_Witness ==
    /\ clean.phase = "again"
    /\ clean.input = <<"&", "l", "t", ";", "b", "r", ">">>
    /\ clean.out1 = <<"\n">>
    /\ clean.out2 = clean.out1

(***************************************************************************)
(* The project routes (routers/projects.py) over the projects directory    *)
(***************************************************************************)
MaxTime == 2

\* the file names a request path carries; the handlers unquote them
RequestNames == FileNames \cup {"b%2Etxt", "."}

\* a name that, once unquoted, leads out of the project directory and into
\* the directory of another project
TraversalName == "..%2Fproject-0a1b2c3d%2Fa.txt"
TraversalPath == "../project-0a1b2c3d/a.txt"

\* urllib.parse.unquote on the request names
Unquote(name) ==
    CASE name = "b%2Etxt" -> "b.txt"
      [] name = TraversalName -> TraversalPath
      [] OTHER -> name

\* project_dir / decoded_filename as the file system resolves it: the
\* directory and the entry the path ends at
Locate(project_id, name) ==
    IF name = TraversalPath THEN [dir |-> "project-0a1b2c3d", name |-> "a.txt"]
    ELSE [dir |-> project_id, name |-> name]

\* the directories with the entry at a location replaced
WriteAt(dirs, loc, file) == [dirs EXCEPT ![loc.dir].files[loc.name] = file]

\* the contents a caller saves: a text that is no JSON, and a JSON list
Contents == {"plain", "[1]"}

\* (project_dir / name).exists(); "." is the project directory itself
Exists(dirs, project_id, name) ==
    LET loc == Locate(project_id, name)
    IN  /\ dirs[project_id].exists
        /\ dirs[loc.dir].exists
        /\ loc.name = "." \/ dirs[loc.dir].files[loc.name].kind # "none"

\* load_project_metadata: the object the metadata file holds, the default
\* metadata when the file is missing or does not parse
load_project_metadata(dir, project_id, t) ==
    LET f == dir.files[METADATA_FILE]
    IN  CASE f.kind = "meta" -> f
          [] f.kind = "text" /\ f.text = "[1]" -> f
          [] OTHER -> File("meta", "", project_id, project_id, t, t)

\* metadata = load_project_metadata(dir); metadata["updated_at"] = now;
\* save_project_metadata(dir, metadata).  A loaded JSON list takes no string
\* key: TypeError, caught by the handler's except Exception.
RefreshMetadata(dir, project_id, t) ==
    LET metadata == load_project_metadata(dir, project_id, t)
    IN  IF metadata.kind # "meta"
        THEN [raised |-> TRUE, dir |-> dir]
        ELSE [raised |-> FALSE,
              dir |-> [dir EXCEPT !.files[METADATA_FILE] =
                                     [metadata EXCEPT !.updated_at = t]]]

\* the handler's result: the HTTP status and the directory it leaves
Result(status, dirs) == [status |-> status, dirs |-> dirs, body |-> NoBody]

\* after the file operation of a handler: refresh the metadata, answer 200,
\* or 500 with the file operation done when the refresh raises
Refreshed(dirs, project_id, dir, t) ==
    LET r == RefreshMetadata(dir, project_id, t)
    IN  Result(IF r.raised THEN 500 ELSE 200, [dirs EXCEPT ![project_id] = r.dir])

\* the handler's result with a JSON body
ResultWith(status, dirs, b) == [status |-> status, dirs |-> dirs, body |-> b]

\* uuid.uuid4().hex: 32 hexadecimal digits
HexDigits ==
    {"0", "1", "2", "3", "4", "5", "6", "7", "8", "9", "a", "b", "c", "d", "e", "f"}
Uuid4Hex ==
    { <<"0", "a", "1", "b", "2", "c", "3", "d", "4", "e", "5", "f", "6", "0", "7", "1",
        "8", "2", "9", "3", "a", "4", "b", "5", "c", "6", "d", "7", "e", "8", "f", "9">> }

\* the characters of a project id
IdChars(id) ==
    CASE id = "p1" -> <<"p", "1">>
      [] id = "project-0a1b2c3d" ->
            <<"p", "r", "o", "j", "e", "c", "t", "-", "0", "a", "1", "b", "2", "c", "3", "d">>
      [] OTHER -> <<>>

\* f"project-{uuid.uuid4().hex[:8]}"
GeneratedId(uuid) ==
    LET chars == <<"p", "r", "o", "j", "e", "c", "t", "-">> \o SubSeq(uuid, 1, 8)
    IN  CHOOSE id \in ProjectDirs : IdChars(id) = chars

\* POST /projects (lines 158-205); id is "" when the form carries none
create_project(dirs, t, title, id, uuid) ==
    LET project_id == IF id # "" THEN id ELSE GeneratedId(uuid)
        metadata == File("meta", "", project_id, title, t, t)
    IN  IF dirs[project_id].exists THEN Result(400, dirs)
        ELSE ResultWith(200,
                        [dirs EXCEPT ![project_id] =
                            [EmptyDir EXCEPT !.files[METADATA_FILE] = metadata]],
                        ResponseBody(metadata, <<>>, "", <<>>, {}))

\* PUT /projects/{project_id}/files/{filename} (lines 268-326)
save_project_file(dirs, t, project_id, filename, content) ==
    LET decoded_filename == Unquote(filename)
        loc == Locate(project_id, decoded_filename)
        made == [dirs EXCEPT ![project_id].exists = TRUE]
        written == WriteAt(made, loc, TextFile(content))
    IN  IF decoded_filename = "." \/ ~made[loc.dir].exists
        THEN Result(500, made)
        ELSE Refreshed(written, project_id, written[project_id], t)

\* DELETE /projects/{project_id}/files/{filename} (lines 329-380)
delete_project_file(dirs, t, project_id, filename) ==
    LET decoded_filename == Unquote(filename)
    IN  CASE ~dirs[project_id].exists -> Result(404, dirs)
          [] ~Exists(dirs, project_id, decoded_filename) -> Result(404, dirs)
          [] decoded_filename = "." -> Result(500, dirs)
          [] OTHER ->
                LET removed == WriteAt(dirs, Locate(project_id, decoded_filename), NoFile)
                IN  Refreshed(removed, project_id, removed[project_id], t)

\* Path.suffix.lower() of the names
Suffix(name) ==
    CASE name \in {"a.txt", "b.txt"} -> ".txt"
      [] name = "n.md" -> ".md"
      [] name = METADATA_FILE -> ".json"
      [] name = TraversalPath -> ".txt"
      [] OTHER -> ""

\* FileService.supported_extensions, and the literal sets of lines 67 and 237
SupportedExtensions == {".txt", ".md", ".py", ".js", ".ts", ".html", ".css", ".json"}

\* the bytes a caller uploads: the UTF-8 encoding of a text, or bytes that
\* are no UTF-8
UploadContents == Contents \cup {"<FF>"}

\* content.decode('utf-8')
DecodeUtf8(content) ==
    IF content = "<FF>" THEN [raised |-> TRUE, text |-> ""]
    ELSE [raised |-> FALSE, text |-> content]

upload_project_file_unchecked(dirs, t, project_id, actual_filename, content) ==
    LET decoded_filename == Unquote(actual_filename)
        decoded == DecodeUtf8(content)
    IN  CASE actual_filename = "" -> Result(400, dirs)
          [] ~dirs[project_id].exists -> Result(500, dirs)
          [] Suffix(decoded_filename) \notin SupportedExtensions -> Result(500, dirs)
          [] decoded.raised -> Result(500, dirs)
          [] ~dirs[Locate(project_id, decoded_filename).dir].exists -> Result(500, dirs)
          [] OTHER ->
                LET written == WriteAt(dirs, Locate(project_id, decoded_filename),
                                       TextFile(decoded.text))
                IN  Refreshed(written, project_id, written[project_id], t)

\* POST /projects/{project_id}/files (lines 208-265); actual_filename is ""
\* when neither the form nor the upload names the file.  The only name here
\* without a text suffix is the directory itself: open(..., 'wb') raises.
upload_project_file(dirs, t, project_id, actual_filename, content) ==
    LET decoded_filename == Unquote(actual_filename)
        decoded == DecodeUtf8(content)
    IN  CASE ~dirs[project_id].exists -> Result(404, dirs)
          [] actual_filename = "" -> Result(400, dirs)
          [] Suffix(decoded_filename) \notin SupportedExtensions -> Result(500, dirs)
          [] decoded.raised -> Result(500, dirs)
          [] ~dirs[Locate(project_id, decoded_filename).dir].exists -> Result(500, dirs)
          [] OTHER ->
                LET written == WriteAt(dirs, Locate(project_id, decoded_filename),
                                       TextFile(decoded.text))
                IN  Refreshed(written, project_id, written[project_id], t)

\* the order in which glob / iterdir yields the entries of a directory is
\* the file system's: any enumeration without repetition
Orders(S) == {o \in SeqsUpTo(S, Cardinality(S)) :
                 Len(o) = Cardinality(S) /\ \A i, j \in 1..Len(o) : i # j => o[i] # o[j]}

\* the names project_path.glob("*.txt") can match
TxtNames == {n \in FileNames : Suffix(n) = ".txt"}

\* f"file-{file_path.stem}-..." without the modification time
FileId(name) == IF name = "a.txt" THEN "file-a" ELSE "file-b"

\* the files of get_project_detail: project_path.glob("*.txt") in the order
\* the directory yields them
RECURSIVE DetailFiles(_, _)
DetailFiles(dir, order) ==
    IF order = <<>> THEN <<>>
    ELSE LET name == Head(order)
         IN  (IF Suffix(name) = ".txt" /\ dir.files[name].kind = "text"
              THEN <<[id |-> FileId(name), title |-> name,
                      content |-> dir.files[name].text]>>
              ELSE <<>>) \o DetailFiles(dir, Tail(order))

\* GET /projects/{project_id} (lines 87-155).  metadata["file_count"] = ...
\* raises TypeError on a loaded JSON list.
get_project_detail(dirs, t, project_id, order) ==
    IF ~dirs[project_id].exists THEN Result(404, dirs)
    ELSE LET metadata == load_project_metadata(dirs[project_id], project_id, t)
             files == DetailFiles(dirs[project_id], order)
         IN  IF metadata.kind # "meta" THEN Result(500, dirs)
             ELSE ResultWith(200, dirs,
                    ResponseBody([metadata EXCEPT !.file_count = Len(files)], files,
                                 IF files = <<>> THEN "" ELSE files[1].id, <<>>, {}))

\* the file count of list_projects (lines 64-68)
FileCount(dir) ==
    Cardinality({n \in FileNames : /\ dir.files[n].kind # "none"
                                   /\ n # METADATA_FILE
                                   /\ Suffix(n) \in SupportedExtensions})

\* list.sort(key=updated_at, reverse=True): stable, by insertion
RECURSIVE InsertDesc(_, _)
InsertDesc(m, sorted) ==
    IF sorted = <<>> THEN <<m>>
    ELSE IF m.updated_at > Head(sorted).updated_at THEN <<m>> \o sorted
    ELSE <<Head(sorted)>> \o InsertDesc(m, Tail(sorted))

RECURSIVE SortDesc(_)
SortDesc(ms) ==
    IF ms = <<>> THEN <<>>
    ELSE InsertDesc(ms[Len(ms)], SortDesc(SubSeq(ms, 1, Len(ms) - 1)))

\* the metadata of the directories in iteration order
RECURSIVE ListedProjects(_, _, _)
ListedProjects(dirs, t, order) ==
    IF order = <<>> THEN <<>>
    ELSE LET id == Head(order)
         IN  (IF dirs[id].exists
              THEN <<[load_project_metadata(dirs[id], id, t) EXCEPT
                         !.file_count = FileCount(dirs[id])]>>
              ELSE <<>>) \o ListedProjects(dirs, t, Tail(order))

\* GET /projects (lines 49-84)
list_projects(dirs, t, order) ==
    LET projects == ListedProjects(dirs, t, order)
    IN  IF \E i \in 1..Len(projects) : projects[i].kind # "meta" THEN Result(500, dirs)
        ELSE ResultWith(200, dirs, ResponseBody(NoFile, <<>>, "", SortDesc(projects), {}))

\* GET /projects/{project_name}/files (lines 451-469) with
\* FileService.get_project_files (file_service.py, lines 47-67)
list_project_files(dirs, project_name) ==
    ResultWith(200, dirs,
        ResponseBody(NoFile, <<>>, "", <<>>,
            IF ~dirs[project_name].exists THEN {}
            ELSE {n \in FileNames : /\ dirs[project_name].files[n].kind # "none"
                                    /\ Suffix(n) \in SupportedExtensions}))

\* Path.rename(old, new) between two locations: a directory does not move
\* into itself and does not give way to a file; a file replaces a file, and
\* does not move into a directory that is missing
OsRename(dirs, old, new) ==
    CASE old.name = "." \/ new.name = "." -> [raised |-> (old # new), dirs |-> dirs]
      [] old = new -> [raised |-> FALSE, dirs |-> dirs]
      [] ~dirs[new.dir].exists -> [raised |-> TRUE, dirs |-> dirs]
      [] OTHER -> [raised |-> FALSE,
                   dirs |-> WriteAt(WriteAt(dirs, new, dirs[old.dir].files[old.name]),
                                    old, NoFile)]

rename_project_file_overwrites(dirs, t, project_id, old_filename, new_filename) ==
    LET old == Unquote(old_filename)
        new == Unquote(new_filename)
    IN  CASE ~dirs[project_id].exists -> Result(404, dirs)
          [] ~Exists(dirs, project_id, old) -> Result(404, dirs)
          [] OTHER ->
                LET moved == OsRename(dirs, Locate(project_id, old),
                                      Locate(project_id, new))
                IN  IF moved.raised THEN Result(500, dirs)
                    ELSE Refreshed(moved.dirs, project_id, moved.dirs[project_id], t)

\* PUT /projects/{project_id}/files/{old_filename}/rename/{new_filename}
\* (lines 383-448)
rename_project_file(dirs, t, project_id, old_filename, new_filename) ==
    LET old == Unquote(old_filename)
        new == Unquote(new_filename)
    IN  CASE ~dirs[project_id].exists -> Result(404, dirs)
          [] ~Exists(dirs, project_id, old) -> Result(404, dirs)
          [] Exists(dirs, project_id, new) -> Result(409, dirs)
          [] OTHER ->
                LET moved == OsRename(dirs, Locate(project_id, old),
                                      Locate(project_id, new))
                IN  IF moved.raised THEN Result(500, dirs)
                    ELSE Refreshed(moved.dirs, project_id, moved.dirs[project_id], t)

\* ---- actions: one request handled, its response left for the caller
Answer(op, project_id, old, new, r) ==
    /\ fs' = r.dirs
    /\ last' = Response(op, project_id, old, new, r.status)
    /\ lastBody' = r.body
    /\ UNCHANGED <<now, chatVars, client, fmt, clean, auxVars>>

CreateProject ==
    /\ last = NoResponse
    /\ \E id \in ProjectDirs \cup {""}, uuid \in Uuid4Hex :
          Answer("create", id, "", "", create_project(fs, now, "T", id, uuid))

SaveProjectFile ==
    /\ last = NoResponse
    /\ \E project_id \in Projects, filename \in RequestNames, content \in Contents :
          Answer("save", project_id, filename, "",
                 save_project_file(fs, now, project_id, filename, content))

DeleteProjectFile ==
    /\ last = NoResponse
    /\ \E project_id \in Projects, filename \in RequestNames :
          Answer("delete", project_id, filename, "",
                 delete_project_file(fs, now, project_id, filename))

RenameProjectFile ==
    /\ last = NoResponse
    /\ \E project_id \in Projects, old_filename \in RequestNames,
          new_filename \in RequestNames :
          Answer("rename", project_id, old_filename, new_filename,
                 rename_project_file(fs, now, project_id, old_filename, new_filename))

\* (the new field of an upload's record holds the content that was sent)
UploadProjectFile ==
    /\ last = NoResponse
    /\ \E project_id \in Projects, filename \in RequestNames \cup {""},
          content \in UploadContents :
          Answer("upload", project_id, filename, content,
                 upload_project_file(fs, now, project_id, filename, content))

GetProjectDetail ==
    /\ last = NoResponse
    /\ \E project_id \in ProjectDirs, order \in Orders(TxtNames) :
          Answer("detail", project_id, "", "",
                 get_project_detail(fs, now, project_id, order))

ListProjects ==
    /\ last = NoResponse
    /\ \E order \in Orders(ProjectDirs) :
          Answer("list", "", "", "", list_projects(fs, now, order))

ListProjectFiles ==
    /\ last = NoResponse
    /\ \E project_name \in ProjectDirs :
          Answer("files", project_name, "", "", list_project_files(fs, project_name))

\* the caller reads the response
Deliver ==
    /\ last # NoResponse
    /\ last' = NoResponse
    /\ lastBody' = NoBody
    /\ UNCHANGED <<fs, now, chatVars, client, fmt, clean, auxVars>>

\* datetime.now() moves on between requests
Tick ==
    /\ last = NoResponse
    /\ now < MaxTime
    /\ now' = now + 1
    /\ UNCHANGED <<fs, last, lastBody, chatVars, client, fmt, clean, auxVars>>

InitProjects == ChatOff /\ OthersIdle

NextProjects ==
    CreateProject \/ SaveProjectFile \/ DeleteProjectFile \/ RenameProjectFile
        \/ UploadProjectFile \/ GetProjectDetail \/ ListProjects \/ ListProjectFiles
        \/ Deliver \/ Tick

SpecProjects == InitProjects /\ [][NextProjects]_vars

\* a rename request is handled in this step
RenameStep == last = NoResponse /\ last'.op = "rename"

\* C10: a rename whose source exists and whose destination name already
\* exists in the project (the source's own name included) answers 409 and
\* leaves the source, the destination and the metadata as they were; a rename
\* whose source is absent answers 404 and changes nothing.
C10_RenameConflictOrMissing ==
    [][RenameStep =>
          LET old == Unquote(last'.old)
              new == Unquote(last'.new)
          IN  /\ (Exists(fs, last'.project, old) /\ Exists(fs, last'.project, new))
                    => (last'.status = 409 /\ fs' = fs)
              /\ ~Exists(fs, last'.project, old)
                    => (last'.status = 404 /\ fs' = fs)]_vars

\* a rename of b.txt onto itself, the source named in its quoted form
C10_Witness ==
    /\ last.op = "rename" /\ last.status = 409
    /\ last.old = "b%2Etxt" /\ last.new = "b.txt"
    /\ fs[last.project].files["b.txt"].kind = "text"
    /\ fs[last.project].files[METADATA_FILE].kind = "meta"

C10_WitnessMissing ==
    /\ last.op = "rename" /\ last.status = 404
    /\ fs[last.project].exists
    /\ fs[last.project].files["a.txt"].kind = "text"
    /\ last.old = "b.txt" /\ last.new = "a.txt"

\* a request of the named routes is handled in this step
RouteStep(ops) == last = NoResponse /\ last'.op \in ops

\* project-[0-9a-f]{8}
IsGeneratedForm(id) ==
    LET cs == IdChars(id)
    IN  /\ Len(cs) = 16
        /\ SubSeq(cs, 1, 8) = <<"p", "r", "o", "j", "e", "c", "t", "-">>
        /\ \A i \in 9..16 : cs[i] \in HexDigits

\* get_project_detail answers with the project, list_projects lists it
FoundByDetail(dirs, t, id) ==
    \A order \in Orders(TxtNames) :
        LET r == get_project_detail(dirs, t, id, order)
        IN  r.status = 200 /\ r.body.meta.id = id

FoundByList(dirs, t, id) ==
    \A order \in Orders(ProjectDirs) :
        LET r == list_projects(dirs, t, order)
        IN  r.status = 200 /\ \E i \in 1..Len(r.body.list) : r.body.list[i].id = id

\* C11: a create_project without an id that succeeds creates a new project
\* whose id has the form project-<8 hex digits>, persists metadata with that
\* id, the title, created_at, updated_at and file_count 0, and the project is
\* then found by get_project_detail and list_projects; a create_project with
\* an id that exists answers 400 and leaves the projects directory unchanged.
C11_CreateProject ==
    [][RouteStep({"create"}) =>
          /\ (last'.project = "" /\ last'.status = 200) =>
                LET id == lastBody'.meta.id
                IN  /\ IsGeneratedForm(id)
                    /\ ~fs[id].exists
                    /\ fs' = [fs EXCEPT ![id] =
                                [EmptyDir EXCEPT !.files[METADATA_FILE] =
                                    File("meta", "", id, "T", now, now)]]
                    /\ lastBody'.meta = fs'[id].files[METADATA_FILE]
                    /\ lastBody'.meta.file_count = 0
                    /\ FoundByDetail(fs', now', id)
                    /\ FoundByList(fs', now', id)
          /\ last'.project = "" => last'.status \in {200, 400}
          /\ (last'.project # "" /\ fs[last'.project].exists) =>
                (last'.status = 400 /\ fs' = fs)]_vars

\* the files and the active file a detail of the project shows
Lists(r, title, content) ==
    \E i \in 1..Len(r.body.files) :
        r.body.files[i].title = title /\ r.body.files[i].content = content

\* C12: once a text file F with content C is uploaded to an existing project,
\* a get_project_detail of the project (before F is overwritten, renamed or
\* deleted) lists a file with title F and content C and names an active file.
C12_UploadedFileListed ==
    [][(RouteStep({"upload"}) /\ last'.status = 200) =>
          \A order \in Orders(TxtNames) :
              LET r == get_project_detail(fs', now', last'.project, order)
              IN  /\ r.status = 200
                  /\ Lists(r, Unquote(last'.old), last'.new)
                  /\ r.body.active # ""]_vars

\* the metadata file is as create_project wrote it (the title is the form's)
CreatedMetadata(dir) ==
    /\ dir.exists
    /\ dir.files[METADATA_FILE].kind = "meta"
    /\ dir.files[METADATA_FILE].title = "T"

FileMutations == {"upload", "save", "delete", "rename"}

\* C13: for a project created by create_project, a successful file mutation
\* refreshes updated_at and keeps id, title and created_at; a failed one
\* (400, 404, 409) leaves the metadata as it was.
C13_MetadataRefreshed ==
    [][(RouteStep(FileMutations) /\ CreatedMetadata(fs[last'.project])) =>
          LET before == fs[last'.project].files[METADATA_FILE]
              after == fs'[last'.project].files[METADATA_FILE]
          IN  /\ last'.status = 200 =>
                    after = [before EXCEPT !.updated_at = now]
              /\ last'.status \in {400, 404, 409} => after = before]_vars

\* C14 as stated: every project operation on a project that does not exist
\* answers 404 and creates no directory, file or metadata.
C14_MissingProject404 ==
    [][(/\ RouteStep({"detail", "files", "upload", "save", "delete", "rename"})
        /\ ~fs[last'.project].exists) =>
          (last'.status = 404 /\ fs' = fs)]_vars

\* C14 amended: get detail, upload, delete and rename on a project that does
\* not exist answer 404 and create nothing; list files answers 200 with no
\* file and creates nothing; save creates the project directory (and, when it
\* answers 200, the file and default metadata named after the project id).
C14_MissingProjectAnswers ==
    [][(/\ RouteStep({"detail", "files", "upload", "save", "delete", "rename"})
        /\ ~fs[last'.project].exists) =>
          CASE last'.op \in {"detail", "upload", "delete", "rename"} ->
                  last'.status = 404 /\ fs' = fs
            [] last'.op = "files" ->
                  last'.status = 200 /\ lastBody'.names = {} /\ fs' = fs
            [] OTHER ->
                  /\ fs'[last'.project].exists
                  /\ last'.status \in {200, 500}
                  /\ last'.status = 200 =>
                        LET after == fs'[last'.project].files
                        IN  /\ after[Unquote(last'.old)].kind # "none"
                            /\ after[METADATA_FILE].kind = "meta"
                            /\ after[METADATA_FILE].id = last'.project
                            /\ after[METADATA_FILE].title = last'.project]_vars

C14_Witness ==
    /\ last.op = "upload" /\ last.status = 404
    /\ last.old = "a.txt" /\ last.new = "plain"
    /\ ~fs[last.project].exists

\* ---------------------------------------------------------------------
\* routers/materials.py

MaxMaterials == 2
MaxSeconds == 1

\* an uploaded file: its name ("" when the part has none), its content type
\* ("" when none) and its bytes
UploadFile(filename, content_type, content) ==
    [filename |-> filename, content_type |-> content_type, content |-> content]

UploadFiles ==
    { UploadFile("f.txt", "text/plain", "plain"),
      UploadFile("f.txt", "text/plain", "<FF>"),
      UploadFile("d/f.txt", "", "plain") }

Titles == {"t1", "t2"}

\* abs(hash(title)) % 10000 within one process
HashMod(title) ==
    CASE title = "t1" -> 1 [] title = "t2" -> 2 [] title = "f.txt" -> 3
      [] title = "d/f.txt" -> 4 [] OTHER -> 5

\* f"material-{int(time.time())}-{abs(hash(title)) % 10000}"
MaterialId(t, title) == <<t, HashMod(title)>>

\* content.decode('shift_jis')
DecodeShiftJis(content) ==
    IF content = "<FF>" THEN [raised |-> TRUE, text |-> ""]
    ELSE [raised |-> FALSE, text |-> content]

\* lines 36-46: the text of a text/* upload (UTF-8, then Shift_JIS, then UTF-8
\* with replacement characters), the placeholder of any other upload
TextContent(file) ==
    IF file.content_type = "text/plain"
    THEN IF ~DecodeUtf8(file.content).raised THEN <<DecodeUtf8(file.content).text>>
         ELSE IF ~DecodeShiftJis(file.content).raised
              THEN <<DecodeShiftJis(file.content).text>>
              ELSE <<"<U+FFFD>">>
    ELSE <<"[Binary file: ", file.filename, "]">>

\* lines 176-182: bulk upload decodes UTF-8 and falls back to replacement
BulkTextContent(file) ==
    IF file.content_type = "text/plain"
    THEN IF ~DecodeUtf8(file.content).raised THEN <<DecodeUtf8(file.content).text>>
         ELSE <<"<U+FFFD>">>
    ELSE <<"[Binary file: ", file.filename, "]">>

Material(id, title, content, file_type) ==
    [id |-> id, title |-> title, content |-> content, file_type |-> file_type]

\* materials_storage[book_id].append(material), the key made when missing
Stored(storage, book_id, material) ==
    IF book_id \in DOMAIN storage
    THEN [storage EXCEPT ![book_id] = Append(@, material)]
    ELSE [b \in DOMAIN storage \cup {book_id} |->
            IF b = book_id THEN <<material>> ELSE storage[b]]

\* a file on disk: the directory below MATERIALS_DIR ("" is MATERIALS_DIR
\* itself), the material id and the uploaded name its name is made of
DiskFile(dir, id, filename) == [dir |-> dir, id |-> id, filename |-> filename]

\* open(MATERIALS_DIR / f"{id}_{filename}", "wb") fails when the name has a
\* directory part, which does not exist
OpenFails(filename) == filename = "d/f.txt"

MatResult(storage, disk, response) ==
    [storage |-> storage, disk |-> disk, response |-> response]

upload_material(storage, disk, t, book_id, title, file) ==
    LET material == Material(MaterialId(t, title), title, TextContent(file),
                             file.content_type)
        stored == Stored(storage, book_id, material)
    IN  IF OpenFails(file.filename)
        THEN MatResult(stored, disk, MatResponse(500, <<>>))
        ELSE MatResult(stored,
                       disk \cup {DiskFile("", material.id, file.filename)},
                       MatResponse(200, <<material>>))

get_materials(storage, disk, book_id) ==
    MatResult(storage, disk,
              MatResponse(200, IF book_id \in DOMAIN storage
                               THEN storage[book_id] ELSE <<>>))

\* [m for m in materials if m.id != material_id]
Without(materials, material_id) ==
    SelectSeq(materials, LAMBDA m : m.id # material_id)

delete_material(storage, disk, book_id, material_id) ==
    IF book_id \notin DOMAIN storage
    THEN MatResult(storage, disk, MatResponse(404, <<>>))
    ELSE LET kept == [storage EXCEPT ![book_id] = Without(@, material_id)]
         IN  IF Len(kept[book_id]) = Len(storage[book_id])
             THEN MatResult(kept, disk, MatResponse(404, <<>>))
             ELSE MatResult(kept, disk, MatResponse(200, <<>>))

\* the loop of bulk_upload_materials over the files, in their order
RECURSIVE BulkStored(_, _, _, _)
BulkStored(storage, t, book_id, files) ==
    IF files = <<>> THEN storage
    ELSE LET file == Head(files)
             title == IF file.filename = "" THEN "Unnamed file" ELSE file.filename
             hashed == IF file.filename = "" THEN "unnamed" ELSE file.filename
             material == Material(MaterialId(t, hashed), title,
                                  BulkTextContent(file), file.content_type)
         IN  BulkStored(Stored(storage, book_id, material), t, book_id, Tail(files))

bulk_upload_materials(storage, disk, t, book_id, files) ==
    LET stored == BulkStored(storage, t, book_id, files)
        had == IF book_id \in DOMAIN storage THEN Len(storage[book_id]) ELSE 0
    IN  MatResult(stored, disk,
                  MatResponse(200, SubSeq(stored[book_id], had + 1,
                                          Len(stored[book_id]))))

\* the route a request reaches
Handle(storage, disk, t, req) ==
    CASE req.op = "upload" ->
            upload_material(storage, disk, t, req.book_id, req.title, req.files[1])
      [] req.op = "bulk" ->
            bulk_upload_materials(storage, disk, t, req.book_id, req.files)
      [] req.op = "get" -> get_materials(storage, disk, req.book_id)
      [] OTHER -> delete_material(storage, disk, req.book_id, req.material_id)

\* the number of materials the process holds
RECURSIVE HeldMaterials(_, _)
HeldMaterials(storage, books) ==
    IF books = {} THEN 0
    ELSE LET b == CHOOSE x \in books : TRUE
         IN  Len(storage[b]) + HeldMaterials(storage, books \ {b})

MatIds ==
    { MaterialId(t, title) :
        t \in 0..MaxSeconds, title \in Titles \cup { f.filename : f \in UploadFiles } }

Serve(req) ==
    LET r == Handle(mat.storage, mat.disk, mat.time, req)
    IN  /\ mat' = [mat EXCEPT !.storage = r.storage, !.disk = r.disk,
                              !.request = req, !.response = r.response]
        /\ UNCHANGED <<chatVars, client, fmt, clean, fsVars, dic, rd, err, ev>>

UploadMaterial ==
    /\ HeldMaterials(mat.storage, DOMAIN mat.storage) < MaxMaterials
    /\ \E book_id \in Books, title \in Titles, file \in UploadFiles :
          Serve(MatRequest("upload", book_id, title, <<file>>, <<>>))

BulkUploadMaterials ==
    /\ HeldMaterials(mat.storage, DOMAIN mat.storage) + 2 <= MaxMaterials
    /\ \E book_id \in Books, f1 \in UploadFiles, f2 \in UploadFiles :
          Serve(MatRequest("bulk", book_id, "", <<f1, f2>>, <<>>))

GetMaterials ==
    \E book_id \in Books : Serve(MatRequest("get", book_id, "", <<>>, <<>>))

DeleteMaterial ==
    \E book_id \in Books, material_id \in MatIds :
        Serve(MatRequest("delete", book_id, "", <<>>, material_id))

MatTick ==
    /\ mat.time < MaxSeconds
    /\ mat' = [mat EXCEPT !.time = @ + 1]
    /\ UNCHANGED <<chatVars, client, fmt, clean, fsVars, dic, rd, err, ev>>

InitMaterials == ChatOff /\ OthersIdle

NextMaterials ==
    UploadMaterial \/ BulkUploadMaterials \/ GetMaterials \/ DeleteMaterial
        \/ MatTick

SpecMaterials == InitMaterials /\ [][NextMaterials]_vars

\* a request of the materials router is handled in this step
MatStep == mat'.request.op # "" /\ mat'.time = mat.time

\* C16: the response to a request depends only on the request's inputs, the
\* filesystem and the clock: it is the response the same handler gives to the
\* same request over the same files when no earlier request has left anything
\* in the memory of the process.
C16_NoSharedMemory ==
    [][MatStep =>
          mat'.response =
              Handle(EmptyStorage, mat.disk, mat.time, mat'.request).response]_vars

\* the ids of the materials listed for a book, and of the materials persisted
\* under the book's directory
Listed(book_id) ==
    LET r == get_materials(mat.storage, mat.disk, book_id).response.materials
    IN  { r[i].id : i \in 1..Len(r) }

PersistedUnder(disk, book_id) == { f.id : f \in { g \in disk : g.dir = book_id } }

\* C17: after any sequence of upload, bulk upload and delete, the materials
\* listed for a book are exactly those persisted under the book's directory.
C17_ListedArePersisted ==
    \A book_id \in Books : Listed(book_id) = PersistedUnder(mat.disk, book_id)

\* ---------------------------------------------------------------------
\* exception handlers of main.py and the routers

DebugValues == {"<unset>", "", "1", "false"}

\* str(e) of the exceptions a handler may see
ExceptionTexts ==
    { "GEMINI_API_KEY environment variable is not set",
      "[Errno 2] No such file or directory: 'data/materials/material-0-1_d/f.txt'",
      "'list' object does not support item assignment" }

ChatRoutes == {"project_chat", "dictionary_chat", "material_chat"}
MaterialsRoutes ==
    {"upload_material", "get_materials", "delete_material",
     "bulk_upload_materials", "materials_chat"}
DictionaryRoutes == {"search_dictionary", "suggest_expressions"}
ProjectsRoutes ==
    {"list_projects", "get_project_detail", "create_project",
     "upload_project_file", "save_project_file", "delete_project_file",
     "rename_project_file", "list_project_files", "list_material_files"}

\* os.getenv("DEBUG") as a condition: a non-empty string
DebugSet(debug) == debug \notin {"<unset>", ""}

\* main.global_exception_handler
global_exception_handler(debug, exc) ==
    ErrBody("Internal Server Error", IF DebugSet(debug) THEN exc ELSE NoDetails)

\* the except clauses of chat.py, materials.py and dictionary.py:
\* HTTPException(500, detail={"error": ..., "message": ..., "details": str(e)})
RouterDetail(route, exc) == ErrBody(route, exc)

\* the except clauses of projects.py: HTTPException(500, detail=<fixed text>)
ProjectsDetail(route) == ErrBody(route, NoDetails)

Responds(route, body) ==
    /\ err' = ErrState(err.DEBUG, route, 500, body)
    /\ UNCHANGED <<chatVars, client, fmt, clean, fsVars, mat, dic, rd, ev>>

\* an exception no route catches (a dependency such as get_gemini_service
\* raises before the route's try block is entered)
UnhandledException ==
    \E route \in ChatRoutes \cup DictionaryRoutes, exc \in ExceptionTexts :
        Responds(route, global_exception_handler(err.DEBUG, exc))

ChatRouteRaises ==
    \E route \in ChatRoutes, exc \in ExceptionTexts :
        Responds(route, RouterDetail(route, exc))

MaterialsRouteRaises ==
    \E route \in MaterialsRoutes, exc \in ExceptionTexts :
        Responds(route, RouterDetail(route, exc))

DictionaryRouteRaises ==
    \E route \in DictionaryRoutes, exc \in ExceptionTexts :
        Responds(route, RouterDetail(route, exc))

ProjectsRouteRaises ==
    \E route \in ProjectsRoutes : Responds(route, ProjectsDetail(route))

InitErrors ==
    /\ ChatOff
    /\ client = ClientIdle /\ fmt = FmtIdle /\ clean = CleanIdle
    /\ fs = NoProjects /\ now = 0 /\ last = NoResponse /\ lastBody = NoBody
    /\ mat = MatIdle /\ dic = DicIdle /\ rd = RdIdle
    /\ \E debug \in DebugValues : err = [ErrIdle EXCEPT !.DEBUG = debug]
    /\ ev = EvIdle

NextErrors ==
    UnhandledException \/ ChatRouteRaises \/ MaterialsRouteRaises
        \/ DictionaryRouteRaises \/ ProjectsRouteRaises

SpecErrors == InitErrors /\ [][NextErrors]_vars

\* C15: the text of an unexpected exception is in the body of a 500 response
\* only when DEBUG is set; with DEBUG unset no route returns exception text.
C15_ExceptionTextOnlyInDebug ==
    (err.status = 500 /\ ~DebugSet(err.DEBUG)) => err.body.details = NoDetails

\* ---------------------------------------------------------------------
\* routers/dictionary.py: search_dictionary.  A string is the sequence of its
\* code points, each written "uXXXX".

DUMMY_DICTIONARY ==
    << [id |-> "1",
        word |-> <<"u7f8e", "u3057", "u3044">>,
        reading |-> <<"u3046", "u3064", "u304f", "u3057", "u3044">>,
        meanings |-> <<<<"u5f62", "u3084", "u8272", "u306a", "u3069", "u304c", "u6574", "u3063", "u3066", "u3044", "u3066", "u3001", "u898b", "u3066", "u5feb", "u304f", "u611f", "u3058", "u308b", "u3055", "u307e">>>>],
       [id |-> "2",
        word |-> <<"u9759", "u8b10">>,
        reading |-> <<"u305b", "u3044", "u3072", "u3064">>,
        meanings |-> <<<<"u9759", "u304b", "u3067", "u843d", "u3061", "u7740", "u3044", "u3066", "u3044", "u308b", "u3055", "u307e">>>>],
       [id |-> "3",
        word |-> <<"u5e7d", "u7384">>,
        reading |-> <<"u3086", "u3046", "u3052", "u3093">>,
        meanings |-> <<<<"u5965", "u6df1", "u304f", "u3066", "u4e0a", "u54c1", "u306a", "u3055", "u307e">>,
                      <<"u795e", "u79d8", "u7684", "u3067", "u6df1", "u9060", "u306a", "u3055", "u307e">>>>],
       [id |-> "4",
        word |-> <<"u98a8", "u96c5">>,
        reading |-> <<"u3075", "u3046", "u304c">>,
        meanings |-> <<<<"u4e0a", "u54c1", "u3067", "u6d17", "u7df4", "u3055", "u308c", "u305f", "u3055", "u307e">>,
                      <<"u98a8", "u6d41", "u3067", "u96c5", "u3084", "u304b", "u306a", "u3055", "u307e">>>>],
       [id |-> "5",
        word |-> <<"u4f98", "u5bc2">>,
        reading |-> <<"u308f", "u3073", "u3055", "u3073">>,
        meanings |-> <<<<"u4e0d", "u5b8c", "u5168", "u3055", "u3084", "u7121", "u5e38", "u6027", "u306e", "u4e2d", "u306b", "u898b", "u51fa", "u3059", "u7f8e", "u610f", "u8b58">>>>] >>

Queries ==
    { <<>>,
      <<"u4e0a", "u54c1">>,
      <<"u7f8e">>,
      <<"u3046">>,
      <<"u3055", "u307e">>,
      <<"u9759", "u8b10">>,
      <<"u3073">>,
      <<"u732b">>,
      <<"u0041">>,
      <<"u0061">>,
      <<"u7f8e", "u3057", "u3044", "u666f", "u8272">>,
      <<"u306a", "u3055", "u307e">>,
      <<"u308f", "u3073">>,
      <<"u96c5">>,
      <<"u0041", "u0061">>,
      <<"u4f98", "u5bc2", "u306e", "u7f8e", "u5b66">> }

MinLimit == 1
DefaultLimit == 10
MaxLimit == 50

\* limit: int = Query(10, ge=1, le=50)
Limits == {MinLimit, 2, 4, 5, DefaultLimit, MaxLimit}

\* str.lower(): the entries and the queries hold one cased letter, "A"
LowerChar(c) == IF c = "u0041" THEN "u0061" ELSE c
Lower(str) == [i \in 1..Len(str) |-> LowerChar(str[i])]

\* sub in str
RECURSIVE FoundFrom(_, _, _)
FoundFrom(sub, str, i) ==
    IF i + Len(sub) - 1 > Len(str) THEN FALSE
    ELSE IF SubSeq(str, i, i + Len(sub) - 1) = sub THEN TRUE
    ELSE FoundFrom(sub, str, i + 1)

In(sub, str) == FoundFrom(sub, str, 1)

\* lines 72-74: the condition under which an entry is a result
Matches(query, entry_data) ==
    \/ In(Lower(query), Lower(entry_data.word))
    \/ In(Lower(query), Lower(entry_data.reading))
    \/ \E k \in 1..Len(entry_data.meanings) :
          In(Lower(query), Lower(entry_data.meanings[k]))

\* what the LLM call does: it answers a text, a blank text, a response with
\* no candidate or no part, or it fails
LlmOutcomes == {"text", "blank", "no_candidates", "no_parts", "raises"}

Investigating(query) == <<"investigating:">> \o query

\* GeminiChatService.search_dictionary: never raises
GeminiSearchDictionary(query, outcome) ==
    IF outcome = "text" THEN <<"explanation">> ELSE Investigating(query)

DynamicEntry(query, explanation) ==
    [id |-> "gemini", word |-> query, reading |-> <<"pending">>,
     meanings |-> <<explanation>>]

DicResult(status, results, total, asked) ==
    [status |-> status, results |-> results, total |-> total, asked |-> asked]

Shorter(a, b) == IF a < b THEN a ELSE b

search_dictionary_unlimited(query, limit, outcome) ==
    LET found == SelectSeq(DUMMY_DICTIONARY, LAMBDA e : Matches(query, e))
        filtered_results ==
            IF found = <<>>
            THEN <<DynamicEntry(query, GeminiSearchDictionary(query, outcome))>>
            ELSE found
    IN  DicResult(200, filtered_results, Len(filtered_results), found = <<>>)

\* (the except clause of lines 100-112 has no case: the service's
\* search_dictionary catches every exception itself)
search_dictionary(query, limit, outcome) ==
    LET found == SelectSeq(DUMMY_DICTIONARY, LAMBDA e : Matches(query, e))
        filtered_results ==
            IF found = <<>>
            THEN <<DynamicEntry(query, GeminiSearchDictionary(query, outcome))>>
            ELSE found
        limited_results ==
            SubSeq(filtered_results, 1, Shorter(limit, Len(filtered_results)))
    IN  DicResult(200, limited_results, Len(filtered_results), found = <<>>)

SearchDictionary ==
    \E query \in Queries, limit \in Limits, outcome \in LlmOutcomes :
        LET r == search_dictionary(query, limit, outcome)
        IN  /\ dic' = [query |-> query, limit |-> limit, status |-> r.status,
                       results |-> r.results, total |-> r.total, asked |-> r.asked]
            /\ UNCHANGED <<chatVars, client, fmt, clean, fsVars, mat, rd, err, ev>>

InitDictionary == ChatOff /\ OthersIdle

NextDictionary == SearchDictionary

SpecDictionary == InitDictionary /\ [][NextDictionary]_vars

\* str contains the query, whatever the case of either
ContainsIgnoringCase(str, query) ==
    \E i \in 1..(Len(str) + 1) :
        \E j \in (i - 1)..Len(str) : Lower(SubSeq(str, i, j)) = Lower(query)

\* the positions, in the static list, of the entries the query selects
MatchingEntries(query) ==
    { n \in 1..Len(DUMMY_DICTIONARY) :
        \/ ContainsIgnoringCase(DUMMY_DICTIONARY[n].word, query)
        \/ ContainsIgnoringCase(DUMMY_DICTIONARY[n].reading, query)
        \/ \E k \in 1..Len(DUMMY_DICTIONARY[n].meanings) :
              ContainsIgnoringCase(DUMMY_DICTIONARY[n].meanings[k], query) }

\* the results are the first matching static entries, in the list's order,
\* as many as the limit allows
StaticResults ==
    LET M == MatchingEntries(dic.query)
    IN  /\ Len(dic.results) = Shorter(dic.limit, Cardinality(M))
        /\ \A i \in 1..Len(dic.results) :
              \E n \in M :
                  /\ dic.results[i] = DUMMY_DICTIONARY[n]
                  /\ Cardinality({ m \in M : m < n }) = i - 1

\* the result is one entry synthesized for the query
SynthesizedResult ==
    /\ Len(dic.results) = 1
    /\ dic.results[1].word = dic.query
    /\ \A n \in 1..Len(DUMMY_DICTIONARY) : dic.results[1].id # DUMMY_DICTIONARY[n].id

\* C18 as stated: the results are the matching static entries; the LLM is
\* asked exactly when no static entry matches, and then one synthesized entry
\* is returned; results has at most limit entries and is never empty; total
\* is the number of matches before limiting.
C18_SearchTotalIsMatches ==
    dic.status = 200 =>
        LET M == MatchingEntries(dic.query)
        IN  /\ dic.asked <=> M = {}
            /\ IF M = {} THEN SynthesizedResult ELSE StaticResults
            /\ Len(dic.results) <= dic.limit
            /\ dic.results # <<>>
            /\ dic.total = Cardinality(M)

\* C18 amended: as stated, except that total is the number of entries before
\* limiting: the number of matching static entries, or 1 when no static entry
\* matches and the synthesized entry is returned.
C18_SearchDictionary ==
    dic.status = 200 =>
        LET M == MatchingEntries(dic.query)
        IN  /\ dic.asked <=> M = {}
            /\ IF M = {} THEN SynthesizedResult ELSE StaticResults
            /\ Len(dic.results) <= dic.limit
            /\ dic.results # <<>>
            /\ dic.total = IF M = {} THEN 1 ELSE Cardinality(M)

C18_Witness ==
    /\ dic.status = 200 /\ dic.asked
    /\ dic.query # <<>> /\ dic.total = 1
    /\ dic.results[1].meanings = <<Investigating(dic.query)>>

C18_WitnessLimited ==
    /\ dic.status = 200 /\ ~dic.asked
    /\ dic.limit = 2 /\ dic.total = 4 /\ Len(dic.results) = 2

\* ---------------------------------------------------------------------
\* services/file_service.py: _read_text_file.  A file's content is a sequence
\* of bytes, each written as two hex digits; a text is the sequence of its
\* code points.

MaxBytes == 2

Bytes == {"41", "e3", "81", "82", "a0", "ff"}

\* continuation bytes of UTF-8 (10xxxxxx)
Utf8Continuation == {"81", "82", "a0"}

\* the code point of e3 followed by two continuation bytes
Utf8CodePoint(pair) ==
    CASE pair = <<"81", "81">> -> "u3041"
      [] pair = <<"81", "82">> -> "u3042"
      [] pair = <<"81", "a0">> -> "u3060"
      [] pair = <<"82", "81">> -> "u3081"
      [] pair = <<"82", "82">> -> "u3082"
      [] pair = <<"82", "a0">> -> "u30a0"
      [] pair = <<"a0", "81">> -> "u3801"
      [] pair = <<"a0", "82">> -> "u3802"
      [] pair = <<"a0", "a0">> -> "u3820"

Decoded(str) == [raised |-> FALSE, text |-> str]
DecodeError == [raised |-> TRUE, text |-> <<>>]

\* bytes.decode('utf-8', errors=...): strict raises at the first byte that
\* starts no valid sequence, replace puts U+FFFD for each maximal invalid part
RECURSIVE Utf8Decode(_, _)
Utf8Decode(bytes, replace) ==
    IF bytes = <<>> THEN Decoded(<<>>)
    ELSE LET b == Head(bytes)
             valid == IF b = "41" THEN 1
                      ELSE IF /\ b = "e3" /\ Len(bytes) >= 3
                              /\ bytes[2] \in Utf8Continuation
                              /\ bytes[3] \in Utf8Continuation
                           THEN 3 ELSE 0
             invalid == IF b = "e3" /\ Len(bytes) >= 2 /\ bytes[2] \in Utf8Continuation
                        THEN 2 ELSE 1
             char == IF valid = 1 THEN "u0041"
                     ELSE IF valid = 3 THEN Utf8CodePoint(<<bytes[2], bytes[3]>>)
                     ELSE "ufffd"
             used == IF valid > 0 THEN valid ELSE invalid
         IN  IF valid = 0 /\ ~replace THEN DecodeError
             ELSE LET rest == Utf8Decode(SubSeq(bytes, used + 1, Len(bytes)), replace)
                  IN  IF rest.raised THEN DecodeError
                      ELSE Decoded(<<char>> \o rest.text)

\* the two-byte sequences cp932 maps, and their code points
Cp932Pairs ==
    { <<"81", "41">>, <<"81", "e3">>, <<"81", "81">>, <<"81", "82">>, <<"81", "a0">>,
      <<"82", "e3">>, <<"82", "81">>, <<"82", "82">>, <<"82", "a0">>,
      <<"e3", "41">>, <<"e3", "e3">>, <<"e3", "81">>, <<"e3", "82">>, <<"e3", "a0">> }

Cp932CodePoint(pair) ==
    CASE pair = <<"81", "41">> -> "u3001"
      [] pair = <<"81", "e3">> -> "u221a"
      [] pair = <<"81", "81">> -> "uff1d"
      [] pair = <<"81", "82">> -> "u2260"
      [] pair = <<"81", "a0">> -> "u25a1"
      [] pair = <<"82", "e3">> -> "u3085"
      [] pair = <<"82", "81">> -> "uff41"
      [] pair = <<"82", "82">> -> "uff42"
      [] pair = <<"82", "a0">> -> "u3042"
      [] pair = <<"e3", "41">> -> "u7d1c"
      [] pair = <<"e3", "e3">> -> "u807d"
      [] pair = <<"e3", "81">> -> "u7e3a"
      [] pair = <<"e3", "82">> -> "u7e67"
      [] pair = <<"e3", "a0">> -> "u7f4c"

\* bytes.decode('cp932')
RECURSIVE Cp932Decode(_)
Cp932Decode(bytes) ==
    IF bytes = <<>> THEN Decoded(<<>>)
    ELSE LET b == Head(bytes)
             single == b \in {"41", "a0", "ff"}
             double == Len(bytes) >= 2 /\ <<b, bytes[2]>> \in Cp932Pairs
             char == IF b = "41" THEN "u0041"
                     ELSE IF b = "a0" THEN "uf8f0"
                     ELSE IF b = "ff" THEN "uf8f3"
                     ELSE Cp932CodePoint(<<b, bytes[2]>>)
             used == IF single THEN 1 ELSE 2
         IN  IF ~single /\ ~double THEN DecodeError
             ELSE LET rest == Cp932Decode(SubSeq(bytes, used + 1, Len(bytes)))
                  IN  IF rest.raised THEN DecodeError
                      ELSE Decoded(<<char>> \o rest.text)

SizeLimit == 10 * 1024 * 1024

\* file_path.suffix.lower()
LowerSuffix(suffix) == IF suffix = ".TXT" THEN ".txt" ELSE suffix

Suffixes == {".txt", ".TXT", ".md", ".pdf", ""}

\* _read_text_file(file_path)
read_text_file(suffix, size, bytes, readable) ==
    IF LowerSuffix(suffix) \notin SupportedExtensions THEN NoText
    ELSE IF ~readable THEN NoText
    ELSE IF size > SizeLimit THEN NoText
    ELSE IF ~Utf8Decode(bytes, FALSE).raised THEN Text(Utf8Decode(bytes, FALSE).text)
    ELSE IF ~Cp932Decode(bytes).raised THEN Text(Cp932Decode(bytes).text)
    ELSE NoText

ByteStrings == UNION { [1..n -> Bytes] : n \in 0..MaxBytes }

ReadTextFile ==
    /\ rd.phase = "idle"
    /\ \E suffix \in Suffixes, bytes \in ByteStrings, readable \in BOOLEAN :
          \E size \in {Len(bytes), SizeLimit, SizeLimit + 1} :
              rd' = [phase |-> "read", suffix |-> suffix, size |-> size,
                     bytes |-> bytes, readable |-> readable,
                     result |-> read_text_file(suffix, size, bytes, readable)]
    /\ UNCHANGED <<chatVars, client, fmt, clean, fsVars, mat, dic, err, ev>>

ReadAgain ==
    /\ rd.phase = "read"
    /\ rd' = RdIdle
    /\ UNCHANGED <<chatVars, client, fmt, clean, fsVars, mat, dic, err, ev>>

InitRead == ChatOff /\ OthersIdle

NextRead == ReadTextFile \/ ReadAgain

SpecRead == InitRead /\ [][NextRead]_vars

\* C19: _read_text_file returns the file's text decoded as UTF-8, else as
\* cp932, else as UTF-8 with replacement characters; it returns no content
\* only when the suffix is outside the allow-list or the file is larger than
\* 10 MB.
C19_ReadTextFile ==
    (rd.phase = "read" /\ rd.readable) =>
        /\ rd.result.none <=>
              \/ LowerSuffix(rd.suffix) \notin SupportedExtensions
              \/ rd.size > SizeLimit
        /\ ~rd.result.none =>
              rd.result.text =
                  IF ~Utf8Decode(rd.bytes, FALSE).raised
                  THEN Utf8Decode(rd.bytes, FALSE).text
                  ELSE IF ~Cp932Decode(rd.bytes).raised
                       THEN Cp932Decode(rd.bytes).text
                       ELSE Utf8Decode(rd.bytes, TRUE).text

\* ---------------------------------------------------------------------
\* generate_response: the content of the reply

\* a context that was loaded
LoadedContext == Lit("context", 5)

\* the LLM answered, and its cleaned response is empty or whitespace
BlankAnswer(o) ==
    /\ ~Raises(o)
    /\ IsBlank(CleanResponse(IF o.kind = "ok" THEN o.body ELSE <<>>))

\* whatever the chat type and the context, the reply made of an LLM outcome
\* is not blank, and it is the fixed apology when the LLM's answer was blank
ReplyOfEveryOutcome ==
    \A ct \in ChatTypes, context \in {<<>>, LoadedContext}, o \in LLMOutcomes :
        LET message == CallResult(ct, context, o)
        IN  /\ message.content # <<>> /\ ~IsBlankText(message.content)
            /\ BlankAnswer(o) => message.content = Lit("empty_apology", 23)

\* C20: every ChatMessage generate_response returns has content that is not
\* empty and not only whitespace; when the LLM's response is empty or only
\* whitespace the content is the fixed apology, for every chat type and with
\* or without a loaded context.
C20_ReplyNeverBlank ==
    /\ Returned => (reply.content # <<>> /\ ~IsBlankText(reply.content))
    /\ ReplyOfEveryOutcome

C20_Witness ==
    /\ Returned /\ llmCalls = 1 /\ ~llmFailed
    /\ reply.id = "msg"
    /\ reply.content = Lit("empty_apology", 23)

\* ---------------------------------------------------------------------
\* generate_response: sources, prompt order and configuration

\* the source is one the chat fetches, and the data service holds its records
Yields(ct, source) == Held(ct, source)

\* C21: when a project or material chat has several sources and at least one
\* of them yields records, the LLM is called with a prompt that holds the
\* context of the sources that were found; the request short-circuits only
\* if no source yielded a record.
C21_FoundContextReachesLLM ==
    (/\ Returned /\ Configured
     /\ chat_type \in {"project", "material"}
     /\ Len(request.sources) >= 2)
    => /\ (\E i \in 1..Len(request.sources) : Yields(chat_type, request.sources[i]))
            => /\ llmCalls = 1
               /\ \A i \in 1..Len(request.sources) :
                     Yields(chat_type, request.sources[i]) =>
                        Contains(prompt,
                                 FormatRecords(chat_type,
                                               HeldRecords(chat_type, request.sources[i])))
       /\ llmCalls = 0 =>
             \A i \in 1..Len(request.sources) : ~Yields(chat_type, request.sources[i])

\* the source is the legacy descriptor book:<book_id>
IsLegacy(source) == source.prefix = "book" /\ source.nparts = 2

\* C22: a legacy descriptor book:<book_id> is recorded as not found without a
\* call to the data service, in project and in material chats; when it is the
\* only source the reply is the not-found message naming book:<book_id> and
\* the LLM is not called.
C22_LegacyDescriptorNotFound ==
    (Returned /\ chat_type \in {"project", "material"}) =>
        /\ \A i \in 1..Len(request.sources) :
              IsLegacy(request.sources[i]) =>
                 /\ goAttempts[i] = 0
                 /\ \E k \in 1..Len(content_not_found) :
                       content_not_found[k] = Tag("book", request.sources[i].book)
        /\ (Len(request.sources) = 1 /\ IsLegacy(request.sources[1])) =>
              /\ goHttp = 0 /\ llmCalls = 0
              /\ reply = NotFoundMessage(chat_type,
                                         <<Tag("book", request.sources[1].book)>>)
              /\ Contains(reply.content, Tag("book", request.sources[1].book))

C22_Witness ==
    /\ pc = "done" /\ chat_type = "material"
    /\ Len(request.sources) = 1 /\ IsLegacy(request.sources[1])
    /\ reply.id = "error"

\* the label of a role
RoleLabel(role) == IF role = "user" THEN Lit("user: ", 6) ELSE Lit("assistant: ", 8)

\* the lines of the prompt before the messages: the system prompt and the
\* context block when context was found
Preamble ==
    <<Lit("system: ", 6) \o SystemPrompt(chat_type)>>
    \o (IF content_context # <<>> THEN <<content_context>> ELSE <<>>)

\* the line naming the request's sources
SourcesLine ==
    Lit("sources: ", 9)
    \o Join([i \in 1..Len(request.sources) |->
               Body(request.sources[i].raw, request.sources[i].rawlen)], Lit(", ", 2))

\* one labeled line per message, in the order of the request
LabeledLines ==
    [i \in 1..Len(request.messages) |->
        RoleLabel(request.messages[i].role) \o request.messages[i].content]

\* a prompt was assembled for the request: it is about to be sent, or the
\* request returned after assembling it
Assembled == pc \in {"llm", "returned"} /\ assembled # <<>>

\* C23 as stated: the assembled prompt is the system prompt, the context
\* block (if any) and one labeled line per message in request order.
C23_PromptOrder ==
    Assembled => assembled = Join(Preamble \o LabeledLines, NL)

\* sources were given, none was loaded and none was recorded as not found
SourcesUnread ==
    request.sources # <<>> /\ content_context = <<>> /\ content_not_found = <<>>

\* C23 amended: the assembled prompt is the system prompt, the context block
\* (if any), a line naming the request's sources when sources were given but
\* none was loaded or recorded as not found, and one labeled line per message
\* in request order.
C23_PromptOrderWithSources ==
    Assembled =>
        assembled = Join(Preamble \o (IF SourcesUnread THEN <<SourcesLine>> ELSE <<>>)
                                  \o LabeledLines, NL)

C23_Witness ==
    /\ pc = "llm" /\ SourcesUnread
    /\ Len(request.messages) = 2
    /\ request.messages[1].role = "assistant" /\ request.messages[2].role = "user"

\* the request returned at line 346, before the configuration is read
NotFoundReturn == content_context = <<>> /\ content_not_found # <<>>

\* C29 as stated: when the URL is not configured, or the secret is not
\* configured or is the placeholder, generate_response returns a
\* configuration-error message and does not call the LLM endpoint.
C29_ConfigurationError ==
    (Returned /\ ~Configured) =>
        /\ reply \in {UrlMissingMessage, PasswordMissingMessage}
        /\ llmCalls = 0

\* C29 amended: in that case generate_response does not call the LLM
\* endpoint, and it returns a configuration-error message unless the request
\* has already returned the not-found message.
C29_ConfigurationErrorUnlessNotFound ==
    (Returned /\ ~Configured) =>
        /\ llmCalls = 0
        /\ IF NotFoundReturn
           THEN reply = NotFoundMessage(chat_type, content_not_found)
           ELSE IF env.GPT_OSS_URL = ""
                THEN reply.content = Lit("url_missing", 37)
                ELSE reply.content = Lit("password_missing", 39)

C29_Witness ==
    /\ pc = "done" /\ env.GPT_OSS_URL # "" /\ env.GPT_OSS_PASSWORD = "Your-Pass-Word"
    /\ reply = PasswordMissingMessage /\ llmCalls = 0
    /\ chat_type = "dictionary"

\* ---------------------------------------------------------------------
\* projects: file counts, renames and the files a request touches

\* C30: for every project, the file_count of list_projects equals the
\* file_count of get_project_detail, which equals the number of files in the
\* detail's files array.
C30_FileCountsAgree ==
    (last.op = "detail" /\ last.status = 200) =>
        /\ lastBody.meta.file_count = Len(lastBody.files)
        /\ \A order \in Orders(ProjectDirs) :
              LET listed == list_projects(fs, now, order)
              IN  listed.status = 200 =>
                     \A i \in 1..Len(listed.body.list) :
                        listed.body.list[i].id = last.project =>
                           listed.body.list[i].file_count = lastBody.meta.file_count

\* C27: a successful rename moves exactly one file: the old name is absent,
\* the new name holds the content the old one had, and every other file of
\* the project and every other project is unchanged (the refresh of the
\* metadata's updated_at is not counted as a change of another file).
C27_RenameMovesOneFile ==
    [][(RouteStep({"rename"}) /\ last'.status = 200) =>
          LET old == Unquote(last'.old)
              new == Unquote(last'.new)
              before == fs[last'.project].files
              after == fs'[last'.project].files
          IN  /\ after[old].kind = "none"
              /\ after[new] = before[old]
              /\ \A n \in FileNames \ {old, new, METADATA_FILE} : after[n] = before[n]
              /\ \A q \in ProjectDirs \ {last'.project} : fs'[q] = fs[q]]_vars

\* ---------------------------------------------------------------------
\* Requests served by one event loop (uvicorn.run of main.py, one process):
\* a handler runs from one await to the next while it holds the loop.

\* the files the requests start from: project p1 with a.txt and b.txt
LoopFiles ==
    LET created == create_project(NoProjects, 0, "T", "p1",
                                  CHOOSE u \in Uuid4Hex : TRUE).dirs
        first == save_project_file(created, 0, "p1", "a.txt", "plain").dirs
    IN  save_project_file(first, 0, "p1", "b.txt", "[1]").dirs

\* the inbound requests: a chat (one that returns before the LLM call, as a
\* not-found or configuration reply does, or one that posts the prompt), a
\* rename and an upload to project p1
LoopRequests ==
    {[NoTask EXCEPT !.kind = "chat", !.ct = c, !.early = e] :
        c \in ChatTypes, e \in BOOLEAN}
    \cup {[NoTask EXCEPT !.kind = "rename", !.old = o, !.new = n] :
            o \in RequestNames, n \in RequestNames}
    \cup {[NoTask EXCEPT !.kind = "upload", !.new = n, !.content = c] :
            n \in {"", "n.md"}, c \in UploadContents}

\* the handler has sent a request or started a read at this position and
\* the answer is outstanding: requests.post (gemini_service.py 423),
\* file.read() (projects.py 234)
Outstanding(kind, at) ==
    \/ kind = "chat" /\ at = "post"
    \/ kind = "upload" /\ at = "read"

SuspendsBeforeRename(kind, at) ==
    \/ kind = "upload" /\ at = "read"
    \/ kind = "rename" /\ at = "move"

\* the handler gives up the loop at this position: only `await file.read()`
\* does; requests.post is a blocking call that is not awaited, and
\* rename_project_file has no await
Suspends(kind, at) == kind = "upload" /\ at = "read"

\* the handler's first position
Entry(kind) == IF kind = "chat" THEN "assemble" ELSE "check"

\* the handler is done with the given status
Done(task, status, dirs) ==
    [task |-> [task EXCEPT !.pc = "done", !.status = status], dirs |-> dirs]

\* the handler moves on to the given position
Goto(task, at, dirs) == [task |-> [task EXCEPT !.pc = at], dirs |-> dirs]

\* the code of a handler from its position to its next call or return
Segment(task, dirs, t) ==
    CASE task.kind = "chat" /\ task.pc = "assemble" ->
            IF task.early THEN Done(task, 200, dirs) ELSE Goto(task, "post", dirs)
      [] task.kind = "chat" /\ task.pc = "post" -> Done(task, 200, dirs)
      [] task.kind = "rename" /\ task.pc = "check" ->
            CASE ~dirs["p1"].exists -> Done(task, 404, dirs)
              [] ~Exists(dirs, "p1", Unquote(task.old)) -> Done(task, 404, dirs)
              [] Exists(dirs, "p1", Unquote(task.new)) -> Done(task, 409, dirs)
              [] OTHER -> Goto(task, "move", dirs)
      [] task.kind = "rename" /\ task.pc = "move" ->
            LET moved == OsRename(dirs, Locate("p1", Unquote(task.old)),
                                  Locate("p1", Unquote(task.new)))
                r == IF moved.raised THEN Result(500, dirs)
                     ELSE Refreshed(moved.dirs, "p1", moved.dirs["p1"], t)
            IN  Done(task, r.status, r.dirs)
      [] task.kind = "upload" /\ task.pc = "check" ->
            CASE ~dirs["p1"].exists -> Done(task, 404, dirs)
              [] task.new = "" -> Done(task, 400, dirs)
              [] OTHER -> Goto(task, "read", dirs)
      [] task.kind = "upload" /\ task.pc = "read" ->
            LET r == upload_project_file(dirs, t, "p1", task.new, task.content)
            IN  Done(task, r.status, r.dirs)
      [] OTHER -> Done(task, 500, dirs)

\* the handler has started and has not returned
Active(task) == task.pc \notin {"none", "ready", "done"}

LoopFrame == UNCHANGED <<now, last, lastBody, chatVars, client, fmt, clean, mat, dic, rd, err>>

\* a request arrives
Arrive(t) ==
    /\ ev.task[t].pc = "none"
    /\ \E req \in LoopRequests : ev' = [ev EXCEPT !.task[t] = [req EXCEPT !.pc = "ready"]]
    /\ fs' = fs /\ LoopFrame

\* the free loop starts the handler of a request
Dispatch(t) ==
    /\ ev.running = "none"
    /\ ev.task[t].pc = "ready"
    /\ ev' = [ev EXCEPT !.running = t, !.task[t].pc = Entry(ev.task[t].kind)]
    /\ fs' = fs /\ LoopFrame

\* the handler that holds the loop runs to its next call or to its return
Run(t) ==
    /\ ev.running = t
    /\ Active(ev.task[t]) /\ ~ev.task[t].io
    /\ LET s == Segment(ev.task[t], fs, now)
           kind == s.task.kind
       IN  /\ ev' = [ev EXCEPT
                        !.task[t] = [s.task EXCEPT
                                        !.io = s.task.pc # "done"
                                               /\ Outstanding(kind, s.task.pc)],
                        !.running = IF s.task.pc = "done" \/ Suspends(kind, s.task.pc)
                                    THEN "none" ELSE t]
           /\ fs' = s.dirs
    /\ LoopFrame

\* the LLM endpoint answers (or the 60 s timeout ends the call), the read of
\* the uploaded file completes
IOCompletes(t) ==
    /\ ev.task[t].io
    /\ ev' = [ev EXCEPT !.task[t].io = FALSE]
    /\ fs' = fs /\ LoopFrame

\* the free loop resumes a suspended handler
Resume(t) ==
    /\ ev.running = "none"
    /\ Active(ev.task[t]) /\ ~ev.task[t].io
    /\ ev' = [ev EXCEPT !.running = t]
    /\ fs' = fs /\ LoopFrame

InitLoop ==
    /\ ChatOff
    /\ client = ClientIdle /\ fmt = FmtIdle /\ clean = CleanIdle
    /\ fs = LoopFiles /\ now = 0 /\ last = NoResponse /\ lastBody = NoBody
    /\ mat = MatIdle /\ dic = DicIdle /\ rd = RdIdle /\ err = ErrIdle
    /\ ev = EvIdle

NextLoop ==
    \E t \in Tasks : Arrive(t) \/ Dispatch(t) \/ Run(t) \/ IOCompletes(t) \/ Resume(t)

SpecLoop == InitLoop /\ [][NextLoop]_vars

\* the LLM call of the chat request is outstanding
CallOutstanding(t) ==
    ev.task[t].kind = "chat" /\ ev.task[t].pc = "post" /\ ev.task[t].io

\* C24: while the LLM call of a chat request is outstanding, the request does
\* not hold the event loop (the call is a suspension point) and every other
\* request that has arrived can be processed.
C24_LLMCallSuspends ==
    \A t \in Tasks :
        CallOutstanding(t) =>
            /\ ev.running # t
            /\ \A u \in Tasks \ {t} : ev.task[u].pc = "ready" => ENABLED Dispatch(u)

\* both requests are renames that were answered, from different sources to
\* the same destination
RenamesRaced ==
    /\ \A t \in Tasks : ev.task[t].kind = "rename" /\ ev.task[t].pc = "done"
    /\ Unquote(ev.task["r1"].new) = Unquote(ev.task["r2"].new)
    /\ Unquote(ev.task["r1"].old) # Unquote(ev.task["r2"].old)
    /\ \A t \in Tasks : Unquote(ev.task[t].old) # "."

\* every text the project held is still held under some name
ContentKept ==
    \A n \in FileNames :
        LoopFiles["p1"].files[n].kind = "text" =>
            \E m \in FileNames : fs["p1"].files[m] = LoopFiles["p1"].files[n]

\* C25: for every interleaving of two concurrent renames in one project from
\* different sources to the same destination, at most one succeeds, the other
\* fails with 409 or 404, and no content is lost or overwritten.
C25_OneRenameWins ==
    RenamesRaced =>
        /\ \E t \in Tasks : ev.task[t].status # 200
        /\ \A t, u \in Tasks :
              (t # u /\ ev.task[t].status = 200) => ev.task[u].status \in {404, 409}
        /\ ContentKept

C25_Witness ==
    /\ RenamesRaced
    /\ ev.task["r1"].old = "b.txt" /\ ev.task["r2"].old = "a.txt"
    /\ ev.task["r1"].new = "n.md"
    /\ ev.task["r1"].status = 409 /\ ev.task["r2"].status = 200
    /\ fs["p1"].files["n.md"].text = "plain"

\* ---------------------------------------------------------------------
\* The file routes called with a name that leads out of the project

\* the names of the requests: a file of the project, and the traversal name
PathNames == {"a.txt", TraversalName}

PathSave ==
    /\ last = NoResponse
    /\ \E filename \in PathNames, content \in Contents :
          Answer("save", "p1", filename, "",
                 save_project_file(fs, now, "p1", filename, content))

PathDelete ==
    /\ last = NoResponse
    /\ \E filename \in PathNames :
          Answer("delete", "p1", filename, "",
                 delete_project_file(fs, now, "p1", filename))

PathRename ==
    /\ last = NoResponse
    /\ \E old_filename \in PathNames, new_filename \in PathNames :
          Answer("rename", "p1", old_filename, new_filename,
                 rename_project_file(fs, now, "p1", old_filename, new_filename))

PathUpload ==
    /\ last = NoResponse
    /\ \E filename \in PathNames, content \in UploadContents :
          Answer("upload", "p1", filename, content,
                 upload_project_file(fs, now, "p1", filename, content))

InitPaths == ChatOff /\ OthersIdle

NextPaths ==
    CreateProject \/ PathSave \/ PathDelete \/ PathRename \/ PathUpload \/ Deliver

SpecPaths == InitPaths /\ [][NextPaths]_vars

\* C26: every file operation on project P (upload, save, delete, rename)
\* creates, overwrites, moves or removes only files inside P's own directory,
\* for every file name of the request, URL-encoded ones included.
C26_StaysInsideProject ==
    [][RouteStep(FileMutations) =>
          \A q \in ProjectDirs \ {last'.project} : fs'[q] = fs[q]]_vars

\* ---------------------------------------------------------------------
\* materials: the ids within a book

\* C28: within a book the ids of the stored materials are pairwise distinct
\* after any sequence of uploads and bulk uploads (so that a delete by id
\* removes exactly one material).
C28_MaterialIdsDistinct ==
    \A book_id \in DOMAIN mat.storage :
        \A i, j \in 1..Len(mat.storage[book_id]) :
            i # j => mat.storage[book_id][i].id # mat.storage[book_id][j].id

====
